---- MODULE Spec2Model ----
(***************************************************************************)
(* A model of fgql-analyzer: the registry builder, the selection-path      *)
(* parser, the type resolution walker and the dependency recorder of       *)
(* src/analyzer.js, the on-disk cache of src/cache.js and the query and    *)
(* reduction engine of src/query.js.                                       *)
(*                                                                         *)
(* JavaScript strings are TLA+ strings; String.prototype.length, split,    *)
(* trim and join are computed character by character.  A JavaScript Map    *)
(* is a sequence of <<key, value>> entries in insertion order.             *)
(***************************************************************************)
EXTENDS Integers, Sequences, FiniteSets, TLC

VARIABLES
  schemaFiles,  \* the schema documents on disk, by absolute path
  now,          \* the clock read by new Date()
  cacheFiles,   \* CACHE_DIR/<key>.json : a function from cache keys to analyses
  cacheIndex,   \* CACHE_DIR/index.json : [exists, entries: Map filePath -> metadata]
  result,       \* the outcome of the last front-end request
  reduceIn,     \* a Dependency list handed to filterLeafDependencies
  reduceOuts,   \* the successive results of reducing it, oldest first
  runs,         \* the analyzeSchema runs in flight, each at an await point
  specText,     \* a field-spec string handed to parseFieldSpec: [tokens, text]
  parsed        \* the results of parsing it: at most one

vars == <<schemaFiles, now, cacheFiles, cacheIndex, result, reduceIn, reduceOuts, runs,
          specText, parsed>>

reduceVars == <<reduceIn, reduceOuts>>

parseVars == <<specText, parsed>>

-----------------------------------------------------------------------------
(* Strings                                                                 *)

CharAt(s, i) == SubSeq(s, i, i)

IsSpace(c) == c \in {" ", "\n", "\t", "\r"}

RECURSIVE TrimStart(_)
TrimStart(s) ==
  IF Len(s) = 0 THEN s
  ELSE IF IsSpace(CharAt(s, 1)) THEN TrimStart(SubSeq(s, 2, Len(s))) ELSE s

RECURSIVE TrimEnd(_)
TrimEnd(s) ==
  IF Len(s) = 0 THEN s
  ELSE IF IsSpace(CharAt(s, Len(s))) THEN TrimEnd(SubSeq(s, 1, Len(s) - 1)) ELSE s

Trim(s) == TrimEnd(TrimStart(s))

\* s.split(/\s+/): cut at every maximal run of white space
RECURSIVE SplitSpacesFrom(_, _, _, _)
SplitSpacesFrom(s, i, cur, inRun) ==
  IF i > Len(s) THEN <<cur>>
  ELSE IF IsSpace(CharAt(s, i))
       THEN IF inRun THEN SplitSpacesFrom(s, i + 1, cur, TRUE)
            ELSE <<cur>> \o SplitSpacesFrom(s, i + 1, "", TRUE)
       ELSE SplitSpacesFrom(s, i + 1, cur \o CharAt(s, i), FALSE)

SplitSpaces(s) == SplitSpacesFrom(s, 1, "", FALSE)

\* s.split(sep) for a set of one-character separators
RECURSIVE SplitAtFrom(_, _, _, _)
SplitAtFrom(s, seps, i, cur) ==
  IF i > Len(s) THEN <<cur>>
  ELSE IF CharAt(s, i) \in seps
       THEN <<cur>> \o SplitAtFrom(s, seps, i + 1, "")
       ELSE SplitAtFrom(s, seps, i + 1, cur \o CharAt(s, i))

SplitAt(s, seps) == SplitAtFrom(s, seps, 1, "")

\* array.join(sep)
RECURSIVE Join(_, _)
Join(parts, sep) ==
  IF Len(parts) = 0 THEN ""
  ELSE IF Len(parts) = 1 THEN parts[1]
  ELSE parts[1] \o sep \o Join(Tail(parts), sep)

\* parts.forEach(part => { if (part !== "...") tokens.push(part) })
RECURSIVE DropDots(_)
DropDots(parts) ==
  IF Len(parts) = 0 THEN <<>>
  ELSE IF parts[1] # "..." THEN <<parts[1]>> \o DropDots(Tail(parts))
  ELSE DropDots(Tail(parts))

\* array.pop(): a no-op on the empty array
Pop(stack) == IF Len(stack) = 0 THEN stack ELSE SubSeq(stack, 1, Len(stack) - 1)

\* array.includes(x)
Includes(arr, x) == \E i \in 1..Len(arr) : arr[i] = x

-----------------------------------------------------------------------------
(* Map                                                                     *)

MapHas(m, k) == \E i \in 1..Len(m) : m[i][1] = k

MapIndex(m, k) == CHOOSE i \in 1..Len(m) : m[i][1] = k

MapGet(m, k) == m[MapIndex(m, k)][2]

\* map.set(k, v): an existing key keeps its position
MapSet(m, k, v) ==
  IF MapHas(m, k) THEN [m EXCEPT ![MapIndex(m, k)] = <<k, v>>]
  ELSE Append(m, <<k, v>>)

MapKeys(m) == [i \in 1..Len(m) |-> m[i][1]]

MapValues(m) == [i \in 1..Len(m) |-> m[i][2]]

-----------------------------------------------------------------------------
(* Selection-path parser                                                   *)

\* the parts of current.trim().split(/\s+/) that are not "..."
FlushParts(current) ==
  IF Trim(current) # "" THEN DropDots(SplitSpaces(Trim(current))) ELSE <<>>

RECURSIVE tokenizeFrom(_, _, _, _)
tokenizeFrom(fieldSpec, i, tokens, current) ==
  IF i > Len(fieldSpec) THEN tokens \o FlushParts(current)
  ELSE LET char == CharAt(fieldSpec, i) IN
    IF char = "{" \/ char = "}"
    THEN tokenizeFrom(fieldSpec, i + 1,
                      (tokens \o FlushParts(current)) \o <<char>>,
                      IF Trim(current) # "" THEN "" ELSE current)
    ELSE IF char = " " \/ char = "\n" \/ char = "\t"
    THEN tokenizeFrom(fieldSpec, i + 1,
                      IF Trim(current) # "" /\ Trim(current) # "..."
                      THEN Append(tokens, Trim(current)) ELSE tokens,
                      IF Trim(current) # "" THEN "" ELSE current)
    ELSE tokenizeFrom(fieldSpec, i + 1, tokens, current \o char)

tokenizeFieldSpec(fieldSpec) == tokenizeFrom(fieldSpec, 1, <<>>, "")

RECURSIVE parseTokens(_, _, _, _)
parseTokens(tokens, i, currentPath, dependencies) ==
  IF i > Len(tokens) THEN dependencies
  ELSE LET token == tokens[i] IN
    IF token = "{" THEN parseTokens(tokens, i + 1, currentPath, dependencies)
    ELSE IF token = "}" THEN parseTokens(tokens, i + 1, Pop(currentPath), dependencies)
    ELSE LET pushed == Append(currentPath, token)
             entry  == [field |-> token, path |-> Join(pushed, ".")]
         IN parseTokens(tokens, i + 1,
                        IF i + 1 > Len(tokens) \/ tokens[i + 1] # "{"
                        THEN Pop(pushed) ELSE pushed,
                        Append(dependencies, entry))

\* a parser that records a field name once for a spec, however many paths
\* reach it
RECURSIVE OncePerField(_, _)
OncePerField(entries, i) ==
  IF i > Len(entries) THEN <<>>
  ELSE (IF \E j \in 1..(i - 1) : entries[j].field = entries[i].field
        THEN <<>> ELSE <<entries[i]>>) \o OncePerField(entries, i + 1)

parseFieldSpecOncePerField(fieldSpec) ==
  OncePerField(parseTokens(tokenizeFieldSpec(fieldSpec), 1, <<>>, <<>>), 1)

\* a parser that records the fields without a nested selection only
RECURSIVE LeavesOnly(_, _)
LeavesOnly(entries, i) ==
  IF i > Len(entries) THEN <<>>
  ELSE (IF \E j \in 1..Len(entries) :
             /\ Len(entries[j].path) > Len(entries[i].path)
             /\ SubSeq(entries[j].path, 1, Len(entries[i].path) + 1)
                  = entries[i].path \o "."
        THEN <<>> ELSE <<entries[i]>>) \o LeavesOnly(entries, i + 1)

parseFieldSpecLeavesOnly(fieldSpec) ==
  LeavesOnly(parseTokens(tokenizeFieldSpec(fieldSpec), 1, <<>>, <<>>), 1)

\* a parser that gives every field its own name as path
RECURSIVE FlatPaths(_, _)
FlatPaths(entries, i) ==
  IF i > Len(entries) THEN <<>>
  ELSE <<[field |-> entries[i].field, path |-> entries[i].field]>>
       \o FlatPaths(entries, i + 1)

parseFieldSpecFlat(fieldSpec) ==
  FlatPaths(parseTokens(tokenizeFieldSpec(fieldSpec), 1, <<>>, <<>>), 1)

parseFieldSpec(fieldSpec) == parseTokens(tokenizeFieldSpec(fieldSpec), 1, <<>>, <<>>)

\* currentPath when the loop of parseFieldSpec ends
RECURSIVE parsePathTokens(_, _, _)
parsePathTokens(tokens, i, currentPath) ==
  IF i > Len(tokens) THEN currentPath
  ELSE LET token == tokens[i] IN
    IF token = "{" THEN parsePathTokens(tokens, i + 1, currentPath)
    ELSE IF token = "}" THEN parsePathTokens(tokens, i + 1, Pop(currentPath))
    ELSE parsePathTokens(tokens, i + 1,
                         IF i + 1 > Len(tokens) \/ tokens[i + 1] # "{"
                         THEN currentPath ELSE Append(currentPath, token))

parsePath(fieldSpec) == parsePathTokens(tokenizeFieldSpec(fieldSpec), 1, <<>>)

-----------------------------------------------------------------------------
(* The AST handed over by graphql's parse().  A type node is               *)
(* [kind |-> "NamedType", name |-> n] or [kind |-> "ListType" or            *)
(* "NonNullType", type |-> node]; a directive is [name, arguments] with    *)
(* arguments a sequence of [name, value]; a field is [name, type,          *)
(* directives]; a definition is [kind, name, interfaces, fields,           *)
(* directives].                                                            *)

Named(n) == [kind |-> "NamedType", name |-> n]
NonNull(t) == [kind |-> "NonNullType", type |-> t]
ListOf(t) == [kind |-> "ListType", type |-> t]

Arg(n, v) == [name |-> n, value |-> v]
Directive(n, args) == [name |-> n, arguments |-> args]
FieldNode(n, t, ds) == [name |-> n, type |-> t, directives |-> ds]
DefNode(k, n, is, fs, ds) ==
  [kind |-> k, name |-> n, interfaces |-> is, fields |-> fs, directives |-> ds]

RECURSIVE extractFieldType(_)
extractFieldType(typeNode) ==
  IF typeNode.kind = "NonNullType" THEN extractFieldType(typeNode.type)
  ELSE IF typeNode.kind = "ListType" THEN extractFieldType(typeNode.type)
  ELSE typeNode.name

RECURSIVE isListType(_)
isListType(typeNode) ==
  IF typeNode.kind = "NonNullType" THEN isListType(typeNode.type)
  ELSE typeNode.kind = "ListType"

isNonNullType(typeNode) == typeNode.kind = "NonNullType"

\* directive.arguments?.find(arg => arg.name.value === name)
HasArg(directive, name) ==
  \E i \in 1..Len(directive.arguments) : directive.arguments[i].name = name

FindArg(directive, name) ==
  LET i == CHOOSE j \in 1..Len(directive.arguments) :
             /\ directive.arguments[j].name = name
             /\ \A k \in 1..(j - 1) : directive.arguments[k].name # name
  IN directive.arguments[i]

\* arg && arg.value.value : the argument is present and its value is truthy
ArgGiven(directive, name) ==
  HasArg(directive, name) /\ FindArg(directive, name).value # ""

RECURSIVE extractKeyFieldsFrom(_, _)
extractKeyFieldsFrom(directives, i) ==
  IF i > Len(directives) THEN <<>>
  ELSE (IF directives[i].name = "key" /\ ArgGiven(directives[i], "fields")
        THEN SplitSpaces(Trim(FindArg(directives[i], "fields").value))
        ELSE <<>>) \o extractKeyFieldsFrom(directives, i + 1)

extractKeyFields(directives) == extractKeyFieldsFrom(directives, 1)

-----------------------------------------------------------------------------
(* Type registry builder: the four visitors of the first pass.  The        *)
(* analysis under construction is [types, implementations, dependencies];  *)
(* analysis.interfaces is written by the interface visitors but read by    *)
(* no operation, and is left out.                                          *)

FieldInfo(field) ==
  [name          |-> field.name,
   type          |-> extractFieldType(field.type),
   rawTypeNode   |-> field.type,
   isListType    |-> isListType(field.type),
   isNonNullType |-> isNonNullType(field.type),
   directives    |-> field.directives]

\* node.fields.forEach(field => fields.set(field.name.value, {...}))
RECURSIVE SetFields(_, _, _)
SetFields(fields, fieldNodes, i) ==
  IF i > Len(fieldNodes) THEN fields
  ELSE SetFields(MapSet(fields, fieldNodes[i].name, FieldInfo(fieldNodes[i])),
                 fieldNodes, i + 1)

EmptyAnalysis == [types |-> <<>>, implementations |-> <<>>, dependencies |-> <<>>]

\* interfaces.forEach(i => implementations.get(i).push(typeName)), the
\* includes() test being made only by the extension visitor
RECURSIVE TrackImplementations(_, _, _, _, _)
TrackImplementations(implementations, interfaces, typeName, checkIncludes, i) ==
  IF i > Len(interfaces) THEN implementations
  ELSE LET name == interfaces[i]
           withKey == IF MapHas(implementations, name) THEN implementations
                      ELSE MapSet(implementations, name, <<>>)
           old == MapGet(withKey, name)
           new == IF checkIncludes /\ Includes(old, typeName) THEN old
                  ELSE Append(old, typeName)
       IN TrackImplementations(MapSet(withKey, name, new), interfaces,
                               typeName, checkIncludes, i + 1)

InterfaceTypeDefinition(analysis, node) ==
  [analysis EXCEPT !.types = MapSet(@, node.name,
     [name        |-> node.name,
      fields      |-> SetFields(<<>>, node.fields, 1),
      isInterface |-> TRUE,
      isExtension |-> FALSE,
      interfaces  |-> <<>>,
      directives  |-> node.directives,
      keyFields   |-> extractKeyFields(node.directives)])]

ObjectTypeDefinition(analysis, node) ==
  [analysis EXCEPT
     !.types = MapSet(@, node.name,
       [name        |-> node.name,
        fields      |-> SetFields(<<>>, node.fields, 1),
        isInterface |-> FALSE,
        isExtension |-> FALSE,
        interfaces  |-> node.interfaces,
        directives  |-> node.directives,
        keyFields   |-> extractKeyFields(node.directives)]),
     !.implementations =
       TrackImplementations(@, node.interfaces, node.name, FALSE, 1)]

ProvisionalType(name, isInterface) ==
  [name        |-> name,
   fields      |-> <<>>,
   isInterface |-> isInterface,
   isExtension |-> TRUE,
   interfaces  |-> <<>>,
   directives  |-> <<>>,
   keyFields   |-> <<>>]

InterfaceTypeExtension(analysis, node) ==
  LET existingType == IF MapHas(analysis.types, node.name)
                      THEN MapGet(analysis.types, node.name)
                      ELSE ProvisionalType(node.name, TRUE)
  IN [analysis EXCEPT !.types = MapSet(@, node.name,
        [existingType EXCEPT
           !.fields     = SetFields(@, node.fields, 1),
           !.directives = @ \o node.directives,
           !.keyFields  = @ \o extractKeyFields(node.directives)])]

ObjectTypeExtension(analysis, node) ==
  LET existingType == IF MapHas(analysis.types, node.name)
                      THEN MapGet(analysis.types, node.name)
                      ELSE ProvisionalType(node.name, FALSE)
  IN [analysis EXCEPT
        !.types = MapSet(@, node.name,
          [existingType EXCEPT
             !.fields     = SetFields(@, node.fields, 1),
             !.interfaces = @ \o node.interfaces,
             !.directives = @ \o node.directives,
             !.keyFields  = @ \o extractKeyFields(node.directives)]),
        !.implementations =
          TrackImplementations(@, node.interfaces, node.name, TRUE, 1)]

\* visit(ast, {...}): the visitor of each definition, in document order
RECURSIVE FirstPass(_, _, _)
FirstPass(analysis, definitions, i) ==
  IF i > Len(definitions) THEN analysis
  ELSE LET node == definitions[i] IN
    FirstPass(
      IF node.kind = "InterfaceTypeDefinition" THEN InterfaceTypeDefinition(analysis, node)
      ELSE IF node.kind = "ObjectTypeDefinition" THEN ObjectTypeDefinition(analysis, node)
      ELSE IF node.kind = "InterfaceTypeExtension" THEN InterfaceTypeExtension(analysis, node)
      ELSE IF node.kind = "ObjectTypeExtension" THEN ObjectTypeExtension(analysis, node)
      ELSE analysis,
      definitions, i + 1)

-----------------------------------------------------------------------------
(* Type resolution walker                                                  *)

Last(seq) == seq[Len(seq)]

\* the field info of the first implementation (in registration order) that
\* defines fieldName, as a sequence of at most one element
RECURSIVE FirstImplField(_, _, _, _)
FirstImplField(types, implementations, fieldName, i) ==
  IF i > Len(implementations) THEN <<>>
  ELSE IF /\ MapHas(types, implementations[i])
          /\ MapHas(MapGet(types, implementations[i]).fields, fieldName)
       THEN <<MapGet(MapGet(types, implementations[i]).fields, fieldName)>>
       ELSE FirstImplField(types, implementations, fieldName, i + 1)

ImplementationsOf(analysis, name) ==
  IF MapHas(analysis.implementations, name)
  THEN MapGet(analysis.implementations, name) ELSE <<>>

\* a walk that never leaves the type it starts from
TraverseStaying(analysis, pathParts, i, currentPosition) == currentPosition

\* the loop over pathParts[0 .. length - 2]: the type the walk stops at
RECURSIVE Traverse(_, _, _, _)
Traverse(analysis, pathParts, i, currentPosition) ==
  IF i > Len(pathParts) - 1 THEN currentPosition
  ELSE IF ~ MapHas(analysis.types, currentPosition) THEN currentPosition
  ELSE LET typeInfo  == MapGet(analysis.types, currentPosition)
           fieldName == pathParts[i]
           found ==
             IF MapHas(typeInfo.fields, fieldName)
             THEN <<MapGet(typeInfo.fields, fieldName)>>
             ELSE IF typeInfo.isInterface
             THEN FirstImplField(analysis.types,
                                 ImplementationsOf(analysis, currentPosition),
                                 fieldName, 1)
             ELSE <<>>
       IN IF Len(found) = 0 THEN currentPosition
          ELSE Traverse(analysis, pathParts, i + 1, found[1].type)

\* a fan-out that lists the implementation registered last first
RECURSIVE ImplResultsNewestFirst(_, _, _, _)
ImplResultsNewestFirst(types, implementations, targetField, i) ==
  IF i > Len(implementations) THEN <<>>
  ELSE ImplResultsNewestFirst(types, implementations, targetField, i + 1)
       \o (IF /\ MapHas(types, implementations[i])
              /\ MapHas(MapGet(types, implementations[i]).fields, targetField)
           THEN <<[actualType |-> implementations[i],
                   isKeyField |-> Includes(MapGet(types, implementations[i]).keyFields,
                                           targetField)]>>
           ELSE <<>>)

\* the implementations of an interface that define targetField
RECURSIVE ImplResults(_, _, _, _)
ImplResults(types, implementations, targetField, i) ==
  IF i > Len(implementations) THEN <<>>
  ELSE (IF /\ MapHas(types, implementations[i])
           /\ MapHas(MapGet(types, implementations[i]).fields, targetField)
        THEN <<[actualType |-> implementations[i],
                isKeyField |-> Includes(MapGet(types, implementations[i]).keyFields,
                                        targetField)]>>
        ELSE <<>>) \o ImplResults(types, implementations, targetField, i + 1)

\* a walker that looks the target field up in the key fields of the type the
\* walk started from
resolveAgainstStartType(dep, typeName, analysis) ==
  LET pathParts       == SplitAt(dep.path, {"."})
      targetField     == Last(pathParts)
      currentPosition == Traverse(analysis, pathParts, 1, typeName)
      known           == MapHas(analysis.types, currentPosition)
      parentType      == MapGet(analysis.types, currentPosition)
      results ==
        IF known /\ ~ MapHas(parentType.fields, targetField) /\ parentType.isInterface
        THEN ImplResults(analysis.types,
                         ImplementationsOf(analysis, currentPosition),
                         targetField, 1)
        ELSE <<>>
  IN IF Len(results) > 0 THEN results
     ELSE <<[actualType |-> currentPosition,
             isKeyField |-> /\ MapHas(analysis.types, typeName)
                            /\ Includes(MapGet(analysis.types, typeName).keyFields,
                                        targetField)]>>

\* a walker that returns no resolution when the walk ends on a type that is
\* not in the registry or does not define the target field
resolveOmittingUnresolved(dep, typeName, analysis) ==
  LET pathParts       == SplitAt(dep.path, {"."})
      targetField     == Last(pathParts)
      currentPosition == Traverse(analysis, pathParts, 1, typeName)
      known           == MapHas(analysis.types, currentPosition)
      parentType      == MapGet(analysis.types, currentPosition)
      results ==
        IF known /\ ~ MapHas(parentType.fields, targetField) /\ parentType.isInterface
        THEN ImplResults(analysis.types,
                         ImplementationsOf(analysis, currentPosition),
                         targetField, 1)
        ELSE <<>>
  IN IF Len(results) > 0 THEN results
     ELSE IF ~ known THEN <<>>
     ELSE IF ~ MapHas(parentType.fields, targetField) THEN <<>>
     ELSE <<[actualType |-> currentPosition,
             isKeyField |-> Includes(parentType.keyFields, targetField)]>>

\* the resolutions of dep.path walked from typeName, as an array
resolveTypeAndCheckKeyField(dep, typeName, analysis) ==
  LET pathParts       == SplitAt(dep.path, {"."})
      targetField     == Last(pathParts)
      currentPosition == Traverse(analysis, pathParts, 1, typeName)
      known           == MapHas(analysis.types, currentPosition)
      parentType      == MapGet(analysis.types, currentPosition)
      results ==
        IF known /\ ~ MapHas(parentType.fields, targetField) /\ parentType.isInterface
        THEN ImplResults(analysis.types,
                         ImplementationsOf(analysis, currentPosition),
                         targetField, 1)
        ELSE <<>>
  IN IF Len(results) > 0 THEN results
     ELSE <<[actualType |-> currentPosition,
             isKeyField |-> known /\ Includes(parentType.keyFields, targetField)]>>

-----------------------------------------------------------------------------
(* Dependency recorder: the second pass                                    *)

Dependency(dgType, dgField, dgSubgraph, ddType, ddField, directive, fieldPath) ==
  [dependingType     |-> dgType,
   dependingField    |-> dgField,
   dependingSubgraph |-> dgSubgraph,
   dependedType      |-> ddType,
   dependedField     |-> ddField,
   directive         |-> directive,
   fieldPath         |-> fieldPath]

\* schemaContent.match(/#\s*Subgraph:\s*(\S+)/i) is given by its capture
\* (comment, "" when the document has no such comment); the file name is
\* cut at its first "." or "-"
extractSubgraph(comment, filePath) ==
  LET fileName == Last(SplitAt(filePath, {"/", "\\"}))
      stem     == SplitAt(fileName, {".", "-"})[1]
  IN IF comment # "" THEN comment
     ELSE IF stem # "" THEN stem
     ELSE "unknown"

isExternal(field) ==
  \E i \in 1..Len(field.directives) : field.directives[i].name = "external"

\* a recorder that takes a key field named by several @key once
RECURSIVE KeyFieldDependenciesOncePerName(_, _, _, _)
KeyFieldDependenciesOncePerName(typeName, type, subgraph, i) ==
  IF i > Len(type.keyFields) THEN <<>>
  ELSE LET keyField == type.keyFields[i]
           seen     == \E j \in 1..(i - 1) : type.keyFields[j] = keyField
       IN
    (IF type.isExtension /\ ~ seen
     THEN <<Dependency(typeName, "_entity", subgraph, typeName, keyField,
                       "key", keyField)>>
     ELSE <<>>)
    \o (IF /\ ~ seen
           /\ MapHas(type.fields, keyField) /\ isExternal(MapGet(type.fields, keyField))
        THEN <<Dependency(typeName, keyField, subgraph, typeName, keyField,
                          "external", keyField)>>
        ELSE <<>>)
    \o KeyFieldDependenciesOncePerName(typeName, type, subgraph, i + 1)

RECURSIVE KeyFieldDependencies(_, _, _, _)
KeyFieldDependencies(typeName, type, subgraph, i) ==
  IF i > Len(type.keyFields) THEN <<>>
  ELSE LET keyField == type.keyFields[i] IN
    (IF type.isExtension
     THEN <<Dependency(typeName, "_entity", subgraph, typeName, keyField,
                       "key", keyField)>>
     ELSE <<>>)
    \o (IF MapHas(type.fields, keyField) /\ isExternal(MapGet(type.fields, keyField))
        THEN <<Dependency(typeName, keyField, subgraph, typeName, keyField,
                          "external", keyField)>>
        ELSE <<>>)
    \o KeyFieldDependencies(typeName, type, subgraph, i + 1)

\* resolutionArray.forEach(({actualType, isKeyField}) => dependencies.push(...))
RECURSIVE RecordResolutions(_, _, _, _, _, _, _)
RecordResolutions(resolutions, i, typeName, fieldName, subgraph, kind, dep) ==
  IF i > Len(resolutions) THEN <<>>
  ELSE <<Dependency(typeName, fieldName, subgraph, resolutions[i].actualType,
                    dep.field,
                    IF resolutions[i].isKeyField THEN "key" ELSE kind,
                    dep.path)>>
       \o RecordResolutions(resolutions, i + 1, typeName, fieldName, subgraph, kind, dep)

\* parseFieldSpec(fieldSpec).forEach(dep => ...) for one clause
RECURSIVE RecordClause(_, _, _, _, _, _, _, _)
RecordClause(entries, i, startType, typeName, fieldName, subgraph, kind, analysis) ==
  IF i > Len(entries) THEN <<>>
  ELSE RecordResolutions(resolveTypeAndCheckKeyField(entries[i], startType, analysis),
                         1, typeName, fieldName, subgraph, kind, entries[i])
       \o RecordClause(entries, i + 1, startType, typeName, fieldName, subgraph,
                       kind, analysis)

\* a recorder that walks the paths of a provides clause from the owning type
DirectiveDependenciesFromOwner(directive, field, typeName, subgraph, analysis) ==
  (IF /\ directive.name \in {"requires", "provides"}
      /\ ArgGiven(directive, "fields")
   THEN RecordClause(parseFieldSpec(FindArg(directive, "fields").value), 1,
                     typeName,
                     typeName, field.name, subgraph, directive.name, analysis)
   ELSE <<>>)
  \o
  (IF directive.name = "join__field"
   THEN LET fieldSubgraph == IF HasArg(directive, "graph")
                             THEN FindArg(directive, "graph").value
                             ELSE subgraph
        IN (IF ArgGiven(directive, "requires")
            THEN RecordClause(parseFieldSpec(FindArg(directive, "requires").value), 1,
                              typeName, typeName, field.name, fieldSubgraph,
                              "requires", analysis)
            ELSE <<>>)
           \o
           (IF ArgGiven(directive, "provides")
            THEN RecordClause(parseFieldSpec(FindArg(directive, "provides").value), 1,
                              typeName, typeName, field.name, fieldSubgraph,
                              "provides", analysis)
            ELSE <<>>)
   ELSE <<>>)

\* a recorder that walks the paths of the provides argument of @join__field
\* from the owning type
DirectiveDependenciesJoinFromOwner(directive, field, typeName, subgraph, analysis) ==
  (IF /\ directive.name \in {"requires", "provides"}
      /\ ArgGiven(directive, "fields")
   THEN RecordClause(parseFieldSpec(FindArg(directive, "fields").value), 1,
                     IF directive.name = "provides" THEN field.type ELSE typeName,
                     typeName, field.name, subgraph, directive.name, analysis)
   ELSE <<>>)
  \o
  (IF directive.name = "join__field"
   THEN LET fieldSubgraph == IF HasArg(directive, "graph")
                             THEN FindArg(directive, "graph").value
                             ELSE subgraph
        IN (IF ArgGiven(directive, "requires")
            THEN RecordClause(parseFieldSpec(FindArg(directive, "requires").value), 1,
                              typeName, typeName, field.name, fieldSubgraph,
                              "requires", analysis)
            ELSE <<>>)
           \o
           (IF ArgGiven(directive, "provides")
            THEN RecordClause(parseFieldSpec(FindArg(directive, "provides").value), 1,
                              typeName, typeName, field.name, fieldSubgraph,
                              "provides", analysis)
            ELSE <<>>)
   ELSE <<>>)

\* the Dependencies of one directive of field fieldName of typeName
DirectiveDependencies(directive, field, typeName, subgraph, analysis) ==
  (IF /\ directive.name \in {"requires", "provides"}
      /\ ArgGiven(directive, "fields")
   THEN RecordClause(parseFieldSpec(FindArg(directive, "fields").value), 1,
                     IF directive.name = "provides" THEN field.type ELSE typeName,
                     typeName, field.name, subgraph, directive.name, analysis)
   ELSE <<>>)
  \o
  (IF directive.name = "join__field"
   THEN LET fieldSubgraph == IF HasArg(directive, "graph")
                             THEN FindArg(directive, "graph").value
                             ELSE subgraph
        IN (IF ArgGiven(directive, "requires")
            THEN RecordClause(parseFieldSpec(FindArg(directive, "requires").value), 1,
                              typeName, typeName, field.name, fieldSubgraph,
                              "requires", analysis)
            ELSE <<>>)
           \o
           (IF ArgGiven(directive, "provides")
            THEN RecordClause(parseFieldSpec(FindArg(directive, "provides").value), 1,
                              field.type, typeName, field.name, fieldSubgraph,
                              "provides", analysis)
            ELSE <<>>)
   ELSE <<>>)

RECURSIVE DirectivesDependencies(_, _, _, _, _)
DirectivesDependencies(field, i, typeName, subgraph, analysis) ==
  IF i > Len(field.directives) THEN <<>>
  ELSE DirectiveDependencies(field.directives[i], field, typeName, subgraph, analysis)
       \o DirectivesDependencies(field, i + 1, typeName, subgraph, analysis)

\* a recorder that gives the field_type edge to the fields without directive
RECURSIVE FieldDependenciesPlainOnly(_, _, _, _, _)
FieldDependenciesPlainOnly(type, i, typeName, subgraph, analysis) ==
  IF i > Len(type.fields) THEN <<>>
  ELSE LET fieldName == type.fields[i][1]
           field     == type.fields[i][2]
       IN (IF MapHas(analysis.types, field.type) /\ Len(field.directives) = 0
           THEN <<Dependency(typeName, fieldName, "NONE", field.type, fieldName,
                             "field_type", fieldName)>>
           ELSE <<>>)
          \o DirectivesDependencies(field, 1, typeName, subgraph, analysis)
          \o FieldDependenciesPlainOnly(type, i + 1, typeName, subgraph, analysis)

\* type.fields.forEach((field, fieldName) => ...)
RECURSIVE FieldDependencies(_, _, _, _, _)
FieldDependencies(type, i, typeName, subgraph, analysis) ==
  IF i > Len(type.fields) THEN <<>>
  ELSE LET fieldName == type.fields[i][1]
           field     == type.fields[i][2]
       IN (IF MapHas(analysis.types, field.type)
           THEN <<Dependency(typeName, fieldName, "NONE", field.type, fieldName,
                             "field_type", fieldName)>>
           ELSE <<>>)
          \o DirectivesDependencies(field, 1, typeName, subgraph, analysis)
          \o FieldDependencies(type, i + 1, typeName, subgraph, analysis)

\* analysis.types.forEach((type, typeName) => ...)
RECURSIVE SecondPass(_, _, _)
SecondPass(analysis, i, subgraph) ==
  IF i > Len(analysis.types) THEN <<>>
  ELSE LET typeName == analysis.types[i][1]
           type     == analysis.types[i][2]
       IN KeyFieldDependencies(typeName, type, subgraph, 1)
          \o FieldDependencies(type, 1, typeName, subgraph, analysis)
          \o SecondPass(analysis, i + 1, subgraph)

\* the serializable analysis that analyzeSchema saves and returns
analyzeSchema(schemaContent, filePath, analyzedAt) ==
  LET registry == FirstPass(EmptyAnalysis, schemaContent.definitions, 1)
      dependencies ==
        SecondPass(registry, 1, extractSubgraph(schemaContent.comment, filePath))
  IN [types           |-> registry.types,
      implementations |-> registry.implementations,
      dependencies    |-> dependencies,
      metadata        |-> [analyzedAt        |-> analyzedAt,
                           schemaFile        |-> filePath,
                           totalTypes        |-> Len(registry.types),
                           totalDependencies |-> Len(dependencies)]]

-----------------------------------------------------------------------------
(* Cache (cache.js)                                                        *)

NoIndex == [exists |-> FALSE, entries |-> <<>>]

Cwd == "/work"

\* path.resolve(filePath)
resolve(filePath) ==
  IF CharAt(filePath, 1) = "/" THEN filePath ELSE (Cwd \o "/") \o filePath

\* md5 of the absolute path, taken to be free of collisions
getCacheKey(filePath) == resolve(filePath)

Ok(v) == [ok |-> TRUE, value |-> v]
Err(msg) == [ok |-> FALSE, error |-> msg]

hasCache(files, filePath) == getCacheKey(filePath) \in DOMAIN files

getCache(files, filePath) ==
  IF getCacheKey(filePath) \in DOMAIN files
  THEN Ok(files[getCacheKey(filePath)])
  ELSE Err("No cached analysis found for: " \o filePath)

\* a selection that takes the first entry of the index as it stands
FirstIndexEntry(index) == index.entries[1]

\* entries.sort((a, b) => b.analyzedAt - a.analyzedAt)[0]: the sort is
\* stable, so the first of the entries with the greatest analyzedAt
MostRecentEntry(index) ==
  index.entries[CHOOSE i \in 1..Len(index.entries) :
    /\ \A j \in 1..Len(index.entries) :
         index.entries[j][2].analyzedAt <= index.entries[i][2].analyzedAt
    /\ \A j \in 1..(i - 1) :
         index.entries[j][2].analyzedAt < index.entries[i][2].analyzedAt]

getMostRecentCache(files, index) ==
  IF ~ index.exists
  THEN Err("No analyzed schemas found. Run \"fgql-analyzer analyze <schema-file>\" first.")
  ELSE IF Len(index.entries) = 0 THEN Err("No analyzed schemas found.")
  ELSE getCache(files, MostRecentEntry(index)[1])

updateCacheIndex(index, filePath, metadata) ==
  [exists  |-> TRUE,
   entries |-> MapSet(IF index.exists THEN index.entries ELSE <<>>, filePath,
                      [analyzedAt        |-> metadata.analyzedAt,
                       totalTypes        |-> metadata.totalTypes,
                       totalDependencies |-> metadata.totalDependencies])]

\* the analysis a query reads: options.schema ? getCache : getMostRecentCache
LookupAnalysis(files, index, options) ==
  IF options.schema # "" THEN getCache(files, options.schema)
  ELSE getMostRecentCache(files, index)

-----------------------------------------------------------------------------
(* Query and reduction engine (query.js)                                   *)

DependencyKey(dep) ==
  dep.dependingType \o "." \o dep.dependingField \o ":" \o dep.dependingSubgraph
    \o ":" \o dep.dependedType \o ":" \o dep.dependedField \o ":" \o dep.directive

RECURSIVE UniqueDeps(_, _, _)
UniqueDeps(dependencies, i, uniqueDeps) ==
  IF i > Len(dependencies) THEN uniqueDeps
  ELSE LET dep == dependencies[i]
           key == DependencyKey(dep)
       IN UniqueDeps(dependencies, i + 1,
            IF ~ MapHas(uniqueDeps, key) THEN MapSet(uniqueDeps, key, dep)
            ELSE LET existing == MapGet(uniqueDeps, key) IN
              IF /\ dep.fieldPath # ""
                 /\ (existing.fieldPath = "" \/ Len(dep.fieldPath) > Len(existing.fieldPath))
              THEN MapSet(uniqueDeps, key, dep)
              ELSE uniqueDeps)

\* a reduction that compares each Dependency with its successor only
RECURSIVE DropBeforeLonger(_, _)
DropBeforeLonger(dependencies, i) ==
  IF i > Len(dependencies) THEN <<>>
  ELSE (IF /\ i < Len(dependencies)
           /\ DependencyKey(dependencies[i]) = DependencyKey(dependencies[i + 1])
           /\ Len(dependencies[i + 1].fieldPath) > Len(dependencies[i].fieldPath)
        THEN <<>> ELSE <<dependencies[i]>>) \o DropBeforeLonger(dependencies, i + 1)

filterLeafNeighbours(dependencies) == DropBeforeLonger(dependencies, 1)

filterLeafDependencies(dependencies) == MapValues(UniqueDeps(dependencies, 1, <<>>))

\* the test of lines 25-51: dependedType never being null in an analysis,
\* the same-type clause of line 37 cannot apply
isDependencyOnQueriedType(analysis, dep, type) ==
  \/ dep.dependedType = type
  \/ /\ dep.fieldPath # ""
     /\ MapHas(analysis.types, type)
     /\ MapHas(MapGet(analysis.types, type).fields, SplitAt(dep.fieldPath, {"."})[1])

\* a filter without the direct test of lines 67-70
IsSelectedIgnoringDirect(analysis, dep, type, options) ==
  /\ isDependencyOnQueriedType(analysis, dep, type)
  /\ (options.field = "" \/ dep.dependedField = options.field)
  /\ (options.includeSameType \/ dep.dependingType # type)
  /\ ~ (options.field # "" /\ dep.dependedType # type)

\* a filter whose direct test also drops every dotted fieldPath
IsSelectedDirectBySegments(analysis, dep, type, options) ==
  /\ isDependencyOnQueriedType(analysis, dep, type)
  /\ (options.field = "" \/ dep.dependedField = options.field)
  /\ (options.includeSameType \/ dep.dependingType # type)
  /\ ~ (options.field # "" /\ dep.dependedType # type)
  /\ ~ (options.direct /\ dep.dependedType # type)
  /\ ~ (options.direct /\ Len(SplitAt(dep.fieldPath, {"."})) > 1)

\* a filter that excludes the queried type's own fields whatever the options
IsSelectedNeverSameType(analysis, dep, type, options) ==
  /\ isDependencyOnQueriedType(analysis, dep, type)
  /\ (options.field = "" \/ dep.dependedField = options.field)
  /\ dep.dependingType # type
  /\ ~ (options.field # "" /\ dep.dependedType # type)
  /\ ~ (options.direct /\ dep.dependedType # type)

\* the body of the forEach of lines 18-74: is dep pushed?
IsSelected(analysis, dep, type, options) ==
  /\ isDependencyOnQueriedType(analysis, dep, type)
  /\ (options.field = "" \/ dep.dependedField = options.field)
  /\ (options.includeSameType \/ dep.dependingType # type)
  /\ ~ (options.field # "" /\ dep.dependedType # type)
  /\ ~ (options.direct /\ dep.dependedType # type)

RECURSIVE SelectDependencies(_, _, _, _)
SelectDependencies(analysis, i, type, options) ==
  IF i > Len(analysis.dependencies) THEN <<>>
  ELSE (IF IsSelected(analysis, analysis.dependencies[i], type, options)
        THEN <<analysis.dependencies[i]>> ELSE <<>>)
       \o SelectDependencies(analysis, i + 1, type, options)

queryDependencies(files, index, type, options) ==
  LET found == LookupAnalysis(files, index, options) IN
  IF ~ found.ok THEN found
  ELSE Ok(filterLeafDependencies(SelectDependencies(found.value, 1, type, options)))

RECURSIVE TypeDependencies(_, _, _)
TypeDependencies(dependencies, i, typeName) ==
  IF i > Len(dependencies) THEN <<>>
  ELSE (IF \/ dependencies[i].dependingType = typeName
           \/ dependencies[i].dependedType = typeName
        THEN <<dependencies[i]>> ELSE <<>>)
       \o TypeDependencies(dependencies, i + 1, typeName)

\* a lookup without the test of lines 169-171
queryTypeDetailsUnchecked(files, index, typeName, options) ==
  LET found == LookupAnalysis(files, index, options) IN
  IF ~ found.ok THEN found
  ELSE Ok([dependencies |-> TypeDependencies(found.value.dependencies, 1, typeName)])

queryTypeDetails(files, index, typeName, options) ==
  LET found == LookupAnalysis(files, index, options) IN
  IF ~ found.ok THEN found
  ELSE IF ~ MapHas(found.value.types, typeName)
  THEN Err("Type \"" \o typeName \o "\" not found in schema")
  ELSE Ok([type         |-> MapGet(found.value.types, typeName),
           dependencies |-> TypeDependencies(found.value.dependencies, 1, typeName)])

-----------------------------------------------------------------------------
(* Schema documents.  The definitions follow the schema of                 *)
(* tests/dependency-resolution.test.js; CartItem.saved carries the         *)
(* provides clause of the dependency definition document, and the Product  *)
(* extension the @key of the analyzer tests.                               *)

IdField == FieldNode("id", NonNull(Named("ID")), <<>>)

DefListing ==
  DefNode("ObjectTypeDefinition", "Listing", <<>>,
    <<IdField,
      FieldNode("parentListing", Named("Listing"), <<>>),
      FieldNode("items", NonNull(ListOf(NonNull(Named("Item")))),
        <<Directive("provides", <<Arg("fields", "id sku")>>)>>)>>,
    <<>>)

DefListingReference ==
  DefNode("ObjectTypeDefinition", "ListingReference", <<>>,
    <<IdField,
      FieldNode("listing", Named("Listing"),
        <<Directive("join__field",
            <<Arg("graph", "LISTINGSVC"), Arg("requires", "id")>>)>>)>>,
    <<>>)

DefCartItem ==
  DefNode("ObjectTypeDefinition", "CartItem", <<>>,
    <<IdField,
      FieldNode("product", NonNull(Named("Product")), <<>>),
      FieldNode("listing", Named("ListingReference"),
        <<Directive("join__field",
            <<Arg("graph", "CARTGRAPHSVC"), Arg("requires", "product { id }")>>)>>),
      FieldNode("saved", Named("ListingReference"),
        <<Directive("join__field",
            <<Arg("graph", "FOLLOW"),
              Arg("provides", "listing { id parentListing {id}}")>>)>>)>>,
    <<>>)

DefProduct ==
  DefNode("ObjectTypeDefinition", "Product", <<>>,
    <<IdField, FieldNode("name", NonNull(Named("String")), <<>>)>>,
    <<>>)

DefProductExtension ==
  DefNode("ObjectTypeExtension", "Product", <<>>,
    <<FieldNode("id", NonNull(Named("ID")), <<Directive("external", <<>>)>>),
      FieldNode("sku", Named("String"), <<>>),
      FieldNode("label", Named("String"),
        <<Directive("requires", <<Arg("fields", "id sku")>>)>>)>>,
    <<Directive("key", <<Arg("fields", "id")>>)>>)

DefItem ==
  DefNode("ObjectTypeDefinition", "Item", <<>>,
    <<IdField, FieldNode("sku", Named("String"), <<>>)>>,
    <<>>)

Pool ==
  <<DefListing, DefListingReference, DefCartItem, DefProduct,
    DefProductExtension, DefItem>>

MaxDefs == 3

\* the documents of at most MaxDefs definitions of the pool, each at most once
Documents ==
  LET picks == UNION {[1..n -> 1..Len(Pool)] : n \in 0..MaxDefs}
  IN {[i \in 1..Len(p) |-> Pool[p[i]]] :
        p \in {q \in picks : \A i, j \in 1..Len(q) : i # j => q[i] # q[j]}}

SchemaPath == "/work/temp-test-schema.graphql"

QueryTypes == {"Listing", "ListingReference", "CartItem", "Product", "Item", "Missing"}

QueryFields == {"", "id"}

QueryOptions ==
  [field : QueryFields, schema : {"", SchemaPath},
   direct : BOOLEAN, includeSameType : BOOLEAN]

\* a path that names no file on disk
MissingPath == "/work/missing.graphql"

\* the <schema-file> arguments of analyze
SchemaArgs == DOMAIN schemaFiles \cup {MissingPath}

\* no field spec under parse
NoSpec == [tokens |-> <<>>, text |-> ""]

Idle == [op |-> "idle"]

-----------------------------------------------------------------------------
(* Front-end requests (cli.js, mcp-server.js)                              *)

Init ==
  /\ schemaFiles \in [{SchemaPath} -> [comment : {""}, definitions : Documents]]
  /\ now = 0
  /\ cacheFiles = <<>>
  /\ cacheIndex = NoIndex
  /\ result = Idle
  /\ reduceIn = <<>>
  /\ reduceOuts = <<>>
  /\ runs = <<>>
  /\ specText = NoSpec
  /\ parsed = <<>>

\* saveCache(filePath, analysis)
saveCache(filePath, analysis) ==
  /\ cacheFiles' = (getCacheKey(filePath) :> analysis) @@ cacheFiles
  /\ cacheIndex' = updateCacheIndex(cacheIndex, filePath, analysis.metadata)

\* an analyze that never re-analyses a schema that has a cached analysis
AnalyzeIgnoringForce(schemaFile, force) ==
  /\ result = Idle
  /\ LET absolutePath == resolve(schemaFile)
         cacheExists  == hasCache(cacheFiles, absolutePath)
     IN
     IF absolutePath \notin DOMAIN schemaFiles
     THEN /\ result' = [op |-> "analyze", schemaFile |-> schemaFile, force |-> force,
                        analysed |-> FALSE,
                        outcome |-> Err("Schema file not found: " \o schemaFile)]
          /\ UNCHANGED <<cacheFiles, cacheIndex>>
     ELSE IF cacheExists
     THEN /\ result' = [op |-> "analyze", schemaFile |-> schemaFile, force |-> force,
                        cacheExists |-> cacheExists, analysed |-> FALSE,
                        outcome |-> Ok(getCache(cacheFiles, absolutePath).value.metadata)]
          /\ UNCHANGED <<cacheFiles, cacheIndex>>
     ELSE LET analysis == analyzeSchema(schemaFiles[absolutePath], absolutePath, now) IN
          /\ saveCache(absolutePath, analysis)
          /\ result' = [op |-> "analyze", schemaFile |-> schemaFile, force |-> force,
                        cacheExists |-> cacheExists, analysed |-> TRUE,
                        outcome |-> Ok(analysis.metadata)]
  /\ UNCHANGED <<schemaFiles, now, reduceVars, runs, parseVars>>

\* fgql-analyzer analyze <schema-file> [--force], analyze_schema
Analyze(schemaFile, force) ==
  /\ result = Idle
  /\ LET absolutePath == resolve(schemaFile)
         cacheExists  == hasCache(cacheFiles, absolutePath)
     IN
     IF absolutePath \notin DOMAIN schemaFiles
     THEN /\ result' = [op |-> "analyze", schemaFile |-> schemaFile, force |-> force,
                        analysed |-> FALSE,
                        outcome |-> Err("Schema file not found: " \o schemaFile)]
          /\ UNCHANGED <<cacheFiles, cacheIndex>>
     ELSE IF cacheExists /\ ~ force
     THEN /\ result' = [op |-> "analyze", schemaFile |-> schemaFile, force |-> force,
                        cacheExists |-> cacheExists, analysed |-> FALSE,
                        outcome |-> Ok(getCache(cacheFiles, absolutePath).value.metadata)]
          /\ UNCHANGED <<cacheFiles, cacheIndex>>
     ELSE LET analysis == analyzeSchema(schemaFiles[absolutePath], absolutePath, now) IN
          /\ saveCache(absolutePath, analysis)
          /\ result' = [op |-> "analyze", schemaFile |-> schemaFile, force |-> force,
                        cacheExists |-> cacheExists, analysed |-> TRUE,
                        outcome |-> Ok(analysis.metadata)]
  /\ UNCHANGED <<schemaFiles, now, reduceVars, runs, parseVars>>

\* fgql-analyzer clear
Clear ==
  /\ result = Idle
  /\ cacheFiles' = <<>>
  /\ cacheIndex' = NoIndex
  /\ result' = [op |-> "clear"]
  /\ UNCHANGED <<schemaFiles, now, reduceVars, runs, parseVars>>

\* fgql-analyzer query <type>, count_dependencies, list_dependencies
QueryDependencies(type, options) ==
  /\ result = Idle
  /\ result' = [op |-> "queryDependencies", type |-> type, options |-> options,
                outcome |-> queryDependencies(cacheFiles, cacheIndex, type, options)]
  /\ UNCHANGED <<schemaFiles, now, cacheFiles, cacheIndex, reduceVars, runs, parseVars>>

QueryTypeDetails(typeName, options) ==
  /\ result = Idle
  /\ result' = [op |-> "queryTypeDetails", type |-> typeName, options |-> options,
                outcome |-> queryTypeDetails(cacheFiles, cacheIndex, typeName, options)]
  /\ UNCHANGED <<schemaFiles, now, cacheFiles, cacheIndex, reduceVars, runs, parseVars>>

\* the command has printed its outcome and its process ends
Exit ==
  /\ result # Idle
  /\ result' = Idle
  /\ UNCHANGED <<schemaFiles, now, cacheFiles, cacheIndex, reduceVars, runs, parseVars>>

Next ==
  \/ \E schemaFile \in SchemaArgs, force \in BOOLEAN : Analyze(schemaFile, force)
  \/ Clear
  \/ \E type \in QueryTypes, options \in QueryOptions : QueryDependencies(type, options)
  \/ \E type \in QueryTypes, schema \in {"", SchemaPath} :
       QueryTypeDetails(type, [schema |-> schema])
  \/ Exit

Spec == Init /\ [][Next]_vars

-----------------------------------------------------------------------------
(* The reduction applied to arbitrary Dependency lists                     *)

ReduceDependencies ==
  {Dependency("CartItem", f, "FOLLOW", "Listing", "id", "provides", path) :
     f \in {"saved", "listing"},
     path \in {"id", "listing.id", "parent.id", "related.id",
               "listing.parentListing.id"}}
  \cup
  {Dependency("CartItem", f, "FOLLOW", "Listing", "parentListing", "provides",
              "listing.parentListing") : f \in {"saved", "listing"}}

MaxList == 3

MaxApply == 2

DependencyLists == UNION {[1..n -> ReduceDependencies] : n \in 0..MaxList}

InitReduce ==
  /\ schemaFiles = <<>>
  /\ now = 0
  /\ cacheFiles = <<>>
  /\ cacheIndex = NoIndex
  /\ result = Idle
  /\ reduceIn \in DependencyLists
  /\ reduceOuts = <<>>
  /\ runs = <<>>
  /\ specText = NoSpec
  /\ parsed = <<>>

\* filterLeafDependencies applied to the list, then to its own output
Reduce ==
  /\ Len(reduceOuts) < MaxApply
  /\ reduceOuts' = Append(reduceOuts,
       filterLeafDependencies(IF Len(reduceOuts) = 0 THEN reduceIn
                              ELSE Last(reduceOuts)))
  /\ UNCHANGED <<schemaFiles, now, cacheFiles, cacheIndex, result, reduceIn, runs, parseVars>>

NextReduce == Reduce

SpecReduce == InitReduce /\ [][NextReduce]_vars

-----------------------------------------------------------------------------
(* The analyzer applied to the schemas of its tests, their definitions in  *)
(* every order and with some of them left out                              *)

\* tests/interface-resolution.test.js, the holder of the requires clause
\* referring to the interface directly
DefListingV2 ==
  DefNode("InterfaceTypeDefinition", "ListingV2", <<>>,
    <<FieldNode("listingId", NonNull(Named("ID")), <<>>)>>,
    <<>>)

DefListingV2Extension ==
  DefNode("InterfaceTypeExtension", "ListingV2", <<>>,
    <<FieldNode("seller", Named("String"), <<>>)>>,
    <<Directive("key", <<Arg("fields", "listingId")>>)>>)

DefSingleSkuListing ==
  DefNode("ObjectTypeDefinition", "SingleSkuListing", <<"ListingV2">>,
    <<FieldNode("listingId", NonNull(Named("ID")), <<>>),
      FieldNode("items", NonNull(ListOf(NonNull(Named("Item")))), <<>>)>>,
    <<>>)

DefVariationListing ==
  DefNode("ObjectTypeDefinition", "VariationListing", <<"ListingV2">>,
    <<FieldNode("listingId", NonNull(Named("ID")), <<>>),
      FieldNode("items", NonNull(ListOf(NonNull(Named("Item")))), <<>>)>>,
    <<>>)

DefRealtimeSellingListingDetails ==
  DefNode("ObjectTypeDefinition", "RealtimeSellingListingDetails", <<>>,
    <<FieldNode("listing", Named("ListingV2"), <<>>),
      FieldNode("adsSecondaryDisplayMessages", ListOf(Named("String")),
        <<Directive("join__field",
            <<Arg("graph", "ADSCONTENTHUB"),
              Arg("requires", "listing { listingId items }")>>)>>)>>,
    <<>>)

\* "analyzeSchema handles nested field specifications"
DefProductVolume ==
  DefNode("ObjectTypeDefinition", "Product", <<>>,
    <<IdField,
      FieldNode("dimensions", Named("Dimensions"), <<Directive("external", <<>>)>>),
      FieldNode("volume", NonNull(Named("Float")),
        <<Directive("requires",
            <<Arg("fields", "dimensions { length width height }")>>)>>)>>,
    <<>>)

DefDimensions ==
  DefNode("ObjectTypeDefinition", "Dimensions", <<>>,
    <<FieldNode("length", NonNull(Named("Float")), <<Directive("external", <<>>)>>),
      FieldNode("width", NonNull(Named("Float")), <<Directive("external", <<>>)>>),
      FieldNode("height", NonNull(Named("Float")), <<Directive("external", <<>>)>>)>>,
    <<>>)

\* "analyzeSchema handles @provides directive"
DefWarehouse ==
  DefNode("ObjectTypeDefinition", "Warehouse", <<>>,
    <<IdField,
      FieldNode("inventory", NonNull(ListOf(NonNull(Named("Product")))),
        <<Directive("provides", <<Arg("fields", "name price")>>)>>)>>,
    <<>>)

DefProductExternal ==
  DefNode("ObjectTypeDefinition", "Product", <<>>,
    <<FieldNode("id", NonNull(Named("ID")), <<Directive("external", <<>>)>>),
      FieldNode("name", NonNull(Named("String")), <<Directive("external", <<>>)>>),
      FieldNode("price", NonNull(Named("Float")), <<Directive("external", <<>>)>>)>>,
    <<Directive("key", <<Arg("fields", "id")>>)>>)

\* "analyzeSchema tracks @key directive dependencies"
DefProductInventory ==
  DefNode("ObjectTypeExtension", "Product", <<>>,
    <<FieldNode("id", NonNull(Named("ID")), <<Directive("external", <<>>)>>),
      FieldNode("sku", NonNull(Named("String")), <<Directive("external", <<>>)>>),
      FieldNode("inStock", NonNull(Named("Boolean")), <<>>),
      FieldNode("warehouse", Named("Warehouse"), <<>>)>>,
    <<Directive("key", <<Arg("fields", "id sku")>>)>>)

DefWarehouseLocation ==
  DefNode("ObjectTypeDefinition", "Warehouse", <<>>,
    <<IdField, FieldNode("location", NonNull(Named("String")), <<>>)>>,
    <<>>)

\* the example of the README, the selection of shippingClass cut to its
\* first nested field
DefProductReadme ==
  DefNode("ObjectTypeExtension", "Product", <<>>,
    <<FieldNode("id", NonNull(Named("ID")), <<Directive("external", <<>>)>>),
      FieldNode("price", NonNull(Named("Float")), <<Directive("external", <<>>)>>),
      FieldNode("weight", Named("Float"), <<Directive("external", <<>>)>>),
      FieldNode("dimensions", Named("Dimensions"), <<Directive("external", <<>>)>>),
      FieldNode("inventoryValue", NonNull(Named("Float")),
        <<Directive("requires", <<Arg("fields", "price")>>)>>),
      FieldNode("shippingClass", NonNull(Named("String")),
        <<Directive("requires",
            <<Arg("fields", "weight dimensions { length }")>>)>>)>>,
    <<Directive("key", <<Arg("fields", "id")>>)>>)

\* "analyzeSchema handles field names that do not match type names", the
\* selection of totalValue cut to its nested block and written tightly
DefMarketListingReference ==
  DefNode("ObjectTypeDefinition", "ListingReference", <<>>,
    <<IdField,
      FieldNode("sku", NonNull(Named("String")), <<>>),
      FieldNode("title", NonNull(Named("String")), <<>>),
      FieldNode("price", NonNull(Named("Float")), <<>>)>>,
    <<Directive("key", <<Arg("fields", "id sku")>>)>>)

DefCart ==
  DefNode("ObjectTypeDefinition", "Cart", <<>>,
    <<FieldNode("items", NonNull(ListOf(NonNull(Named("CartItem")))), <<>>),
      FieldNode("totalValue", NonNull(Named("Float")),
        <<Directive("requires",
            <<Arg("fields", "items { listing {id price}}")>>)>>)>>,
    <<>>)

DefMarketCartItem ==
  DefNode("ObjectTypeDefinition", "CartItem", <<>>,
    <<FieldNode("listing", NonNull(Named("ListingReference")),
        <<Directive("external", <<>>)>>),
      FieldNode("quantity", NonNull(Named("Int")), <<>>)>>,
    <<>>)

\* the nested key fields test script
DefOrder ==
  DefNode("ObjectTypeDefinition", "Order", <<>>,
    <<IdField,
      FieldNode("buyer", NonNull(Named("User")), <<>>),
      FieldNode("items", NonNull(ListOf(NonNull(Named("OrderItem")))), <<>>)>>,
    <<Directive("key", <<Arg("fields", "id")>>),
      Directive("key", <<Arg("fields", "buyer { id }")>>)>>)

DefUser ==
  DefNode("ObjectTypeDefinition", "User", <<>>,
    <<IdField, FieldNode("profile", NonNull(Named("UserProfile")), <<>>)>>,
    <<Directive("key", <<Arg("fields", "id")>>),
      Directive("key", <<Arg("fields", "profile { email }")>>)>>)

\* OrderItem of the script, given as the extension another subgraph makes
DefOrderItemExtension ==
  DefNode("ObjectTypeExtension", "OrderItem", <<>>,
    <<FieldNode("order", NonNull(Named("Order")), <<Directive("external", <<>>)>>),
      FieldNode("sku", NonNull(Named("String")), <<Directive("external", <<>>)>>),
      FieldNode("quantity", NonNull(Named("Int")), <<>>)>>,
    <<Directive("key", <<Arg("fields", "order { id } sku")>>)>>)

\* a test schema: the capture of its "# Subgraph:" comment and its definitions
TestSchema(comment, definitions) == [comment |-> comment, definitions |-> definitions]

TestSchemas ==
  {TestSchema("", <<DefListingV2, DefSingleSkuListing, DefVariationListing,
                    DefRealtimeSellingListingDetails>>),
   TestSchema("", <<DefListingV2, DefListingV2Extension, DefSingleSkuListing>>),
   TestSchema("", <<DefListingV2, DefRealtimeSellingListingDetails>>),
   TestSchema("inventory", <<DefProductReadme, DefWarehouse>>),
   TestSchema("test", <<DefProductVolume, DefDimensions>>),
   TestSchema("test", <<DefWarehouse, DefProductExternal>>),
   TestSchema("inventory", <<DefProductInventory, DefProductExtension, DefProduct,
                             DefWarehouseLocation>>),
   TestSchema("marketplace", <<DefMarketListingReference, DefCart, DefMarketCartItem>>),
   TestSchema("", <<DefOrder, DefUser, DefOrderItemExtension>>)}

MaxDropped == 1

\* the definitions of a schema in every order, at most MaxDropped of them
\* left out
Arrangements(schema) ==
  LET n     == Len(schema.definitions)
      least == IF n > MaxDropped THEN n - MaxDropped ELSE 0
      picks == UNION {[1..k -> 1..n] : k \in least..n}
  IN {TestSchema(schema.comment, [i \in 1..Len(p) |-> schema.definitions[p[i]]]) :
        p \in {q \in picks : \A i, j \in 1..Len(q) : i # j => q[i] # q[j]}}

TestDocuments == UNION {Arrangements(schema) : schema \in TestSchemas}

TestPath == "/work/test-schema.graphql"

InitAnalyze ==
  /\ schemaFiles \in [{TestPath} -> TestDocuments]
  /\ now = 0
  /\ cacheFiles = <<>>
  /\ cacheIndex = NoIndex
  /\ result = Idle
  /\ reduceIn = <<>>
  /\ reduceOuts = <<>>
  /\ runs = <<>>
  /\ specText = NoSpec
  /\ parsed = <<>>

NextAnalyze ==
  \/ \E schemaFile \in SchemaArgs, force \in BOOLEAN : Analyze(schemaFile, force)
  \/ Exit

SpecAnalyze == InitAnalyze /\ [][NextAnalyze]_vars

-----------------------------------------------------------------------------
(* The cache under analyze, query and clear requests on two schema files,  *)
(* the clock advancing between requests                                    *)

PathA == "/work/a.graphql"

PathB == "/work/b.graphql"

\* a.graphql declares Listing and its reference, b.graphql CartItem and Product
CacheSchemaFiles ==
  (PathA :> TestSchema("", <<DefListingReference, DefListing>>))
  @@ (PathB :> TestSchema("", <<DefCartItem, DefProduct>>))

MaxClock == 2

CacheQueryTypes == {"Listing", "Product"}

CacheQueryOptions ==
  [field : {""}, schema : {"", PathA, PathB}, direct : {FALSE},
   includeSameType : {FALSE}]

InitCache ==
  /\ schemaFiles = CacheSchemaFiles
  /\ now = 0
  /\ cacheFiles = <<>>
  /\ cacheIndex = NoIndex
  /\ result = Idle
  /\ reduceIn = <<>>
  /\ reduceOuts = <<>>
  /\ runs = <<>>
  /\ specText = NoSpec
  /\ parsed = <<>>

\* time passes between two requests
Tick ==
  /\ result = Idle
  /\ now < MaxClock
  /\ now' = now + 1
  /\ UNCHANGED <<schemaFiles, cacheFiles, cacheIndex, result, reduceVars, runs, parseVars>>

NextCache ==
  \/ \E schemaFile \in SchemaArgs, force \in BOOLEAN : Analyze(schemaFile, force)
  \/ Clear
  \/ \E type \in CacheQueryTypes, options \in CacheQueryOptions :
       QueryDependencies(type, options)
  \/ Exit
  \/ Tick

SpecCache == InitCache /\ [][NextCache]_vars

-----------------------------------------------------------------------------
(* analyzeSchema runs on different schema files, interleaved at the awaits *)
(* of saveCache and updateCacheIndex                                       *)

MaxRuns == 2

RunIds == 1..MaxRuns

RunPaths == <<"/work/s1.graphql", "/work/s2.graphql", "/work/s3.graphql">>

RunDocuments ==
  {TestSchema("", <<DefProduct>>), TestSchema("", <<DefListingReference, DefListing>>)}

InitConcurrent ==
  /\ schemaFiles \in [{RunPaths[r] : r \in RunIds} -> RunDocuments]
  /\ now = 0
  /\ cacheFiles = <<>>
  /\ cacheIndex = NoIndex
  /\ result = Idle
  /\ reduceIn = <<>>
  /\ reduceOuts = <<>>
  /\ runs = [r \in RunIds |-> [pc |-> "ready", filePath |-> RunPaths[r],
                                analysis |-> EmptyAnalysis, index |-> <<>>]]
  /\ specText = NoSpec
  /\ parsed = <<>>

\* analyzeSchema up to its await of saveCache: both passes and the
\* serializable analysis
StartRun(r) ==
  /\ runs[r].pc = "ready"
  /\ runs' = [runs EXCEPT ![r].pc = "writeCache",
                          ![r].analysis = analyzeSchema(schemaFiles[runs[r].filePath],
                                                        runs[r].filePath, now)]
  /\ UNCHANGED <<schemaFiles, now, cacheFiles, cacheIndex, result, reduceVars, parseVars>>

\* saveCache: await fs.writeJson(cachePath, analysis)
WriteCacheFile(r) ==
  /\ runs[r].pc = "writeCache"
  /\ cacheFiles' = (getCacheKey(runs[r].filePath) :> runs[r].analysis) @@ cacheFiles
  /\ runs' = [runs EXCEPT ![r].pc = "indexExists"]
  /\ UNCHANGED <<schemaFiles, now, cacheIndex, result, reduceVars, parseVars>>

\* updateCacheIndex: let index = {}; await fs.pathExists(indexPath)
IndexExists(r) ==
  /\ runs[r].pc = "indexExists"
  /\ runs' = [runs EXCEPT ![r].pc = IF cacheIndex.exists THEN "readIndex" ELSE "writeIndex",
                          ![r].index = <<>>]
  /\ UNCHANGED <<schemaFiles, now, cacheFiles, cacheIndex, result, reduceVars, parseVars>>

\* updateCacheIndex: index = await fs.readJson(indexPath), which throws when
\* the file is gone
ReadIndex(r) ==
  /\ runs[r].pc = "readIndex"
  /\ runs' = IF cacheIndex.exists
             THEN [runs EXCEPT ![r].pc = "writeIndex", ![r].index = cacheIndex.entries]
             ELSE [runs EXCEPT ![r].pc = "failed"]
  /\ UNCHANGED <<schemaFiles, now, cacheFiles, cacheIndex, result, reduceVars, parseVars>>

\* updateCacheIndex: index[filePath] = {...}; await fs.writeJson(indexPath, index)
WriteIndex(r) ==
  /\ runs[r].pc = "writeIndex"
  /\ cacheIndex' = updateCacheIndex([exists |-> TRUE, entries |-> runs[r].index],
                                    runs[r].filePath, runs[r].analysis.metadata)
  /\ runs' = [runs EXCEPT ![r].pc = "done"]
  /\ UNCHANGED <<schemaFiles, now, cacheFiles, result, reduceVars, parseVars>>

NextConcurrent ==
  \E r \in RunIds :
    \/ StartRun(r)
    \/ WriteCacheFile(r)
    \/ IndexExists(r)
    \/ ReadIndex(r)
    \/ WriteIndex(r)

SpecConcurrent == InitConcurrent /\ [][NextConcurrent]_vars

\* the same runs with clear requests served between their steps
NextClearing ==
  \/ NextConcurrent
  \/ Clear
  \/ Exit

SpecClearing == InitConcurrent /\ [][NextClearing]_vars

-----------------------------------------------------------------------------
(* The analyzer applied to schemas whose paths cross an interface at a     *)
(* segment that is not the last, and whose implementing type is declared   *)
(* by a definition and by an extension                                     *)

DefAuctionListing ==
  DefNode("ObjectTypeDefinition", "AuctionListing", <<"ListingV2">>,
    <<FieldNode("listingId", NonNull(Named("ID")), <<>>),
      FieldNode("price", Named("AuctionPrice"), <<>>)>>,
    <<>>)

DefFixedListing ==
  DefNode("ObjectTypeDefinition", "FixedListing", <<"ListingV2">>,
    <<FieldNode("listingId", NonNull(Named("ID")), <<>>),
      FieldNode("price", Named("FixedPrice"), <<>>)>>,
    <<>>)

DefAuctionPrice ==
  DefNode("ObjectTypeDefinition", "AuctionPrice", <<>>,
    <<FieldNode("amount", NonNull(Named("Float")), <<>>)>>,
    <<>>)

DefFixedPrice ==
  DefNode("ObjectTypeDefinition", "FixedPrice", <<>>,
    <<FieldNode("amount", NonNull(Named("Float")), <<>>)>>,
    <<>>)

DefListingSummary ==
  DefNode("ObjectTypeDefinition", "ListingSummary", <<>>,
    <<FieldNode("listing", Named("ListingV2"), <<>>),
      FieldNode("total", Named("Float"),
        <<Directive("requires",
            <<Arg("fields", "listing { price { amount } }")>>)>>)>>,
    <<>>)

DefSingleSkuListingExtension ==
  DefNode("ObjectTypeExtension", "SingleSkuListing", <<"ListingV2">>,
    <<FieldNode("shipping", Named("String"), <<>>)>>,
    <<>>)

InterfaceSchemas ==
  {TestSchema("", <<DefListingV2, DefAuctionListing, DefFixedListing,
                    DefAuctionPrice, DefFixedPrice, DefListingSummary>>),
   TestSchema("", <<DefListingV2, DefSingleSkuListing, DefSingleSkuListingExtension,
                    DefRealtimeSellingListingDetails>>)}

InterfaceDocuments == UNION {Arrangements(schema) : schema \in InterfaceSchemas}

InitInterfaces ==
  /\ schemaFiles \in [{TestPath} -> InterfaceDocuments]
  /\ now = 0
  /\ cacheFiles = <<>>
  /\ cacheIndex = NoIndex
  /\ result = Idle
  /\ reduceIn = <<>>
  /\ reduceOuts = <<>>
  /\ runs = <<>>
  /\ specText = NoSpec
  /\ parsed = <<>>

NextInterfaces ==
  \/ \E schemaFile \in SchemaArgs, force \in BOOLEAN : Analyze(schemaFile, force)
  \/ Exit

SpecInterfaces == InitInterfaces /\ [][NextInterfaces]_vars

-----------------------------------------------------------------------------
(* parseFieldSpec applied to the field specs written from a few tokens     *)

MaxTokens == 5

SpecTokens == {"a", "b", "{", "}", "...", "...T"}

TokenLists == UNION {[1..n -> SpecTokens] : n \in 0..MaxTokens}

IsBrace(token) == token = "{" \/ token = "}"

\* the text of a token list: "spaced" puts one space between two tokens,
\* "tight" puts it between two tokens that are not braces only, "lines"
\* puts a newline or a tab between two tokens and a space at both ends
RECURSIVE WriteFrom(_, _, _)
WriteFrom(tokens, i, style) ==
  IF i > Len(tokens) THEN ""
  ELSE LET sep == IF i = 1 THEN ""
                  ELSE IF style = "spaced" THEN " "
                  ELSE IF style = "lines" THEN (IF i % 2 = 0 THEN "\n" ELSE "\t")
                  ELSE IF IsBrace(tokens[i - 1]) \/ IsBrace(tokens[i]) THEN ""
                  ELSE " "
       IN (sep \o tokens[i]) \o WriteFrom(tokens, i + 1, style)

Write(tokens, style) ==
  IF style = "lines" THEN (" " \o WriteFrom(tokens, 1, style)) \o " "
  ELSE WriteFrom(tokens, 1, style)

Styles == {"spaced", "tight", "lines"}

FieldSpecs ==
  {[tokens |-> tokens, text |-> Write(tokens, style)] :
     tokens \in TokenLists, style \in Styles}

InitParse ==
  /\ schemaFiles = <<>>
  /\ now = 0
  /\ cacheFiles = <<>>
  /\ cacheIndex = NoIndex
  /\ result = Idle
  /\ reduceIn = <<>>
  /\ reduceOuts = <<>>
  /\ runs = <<>>
  /\ specText \in FieldSpecs
  /\ parsed = <<>>

\* parseFieldSpec(fieldSpec): the entries returned and the path stack left
Parse ==
  /\ Len(parsed) = 0
  /\ parsed' = <<[entries     |-> parseFieldSpec(specText.text),
                  currentPath |-> parsePath(specText.text)]>>
  /\ UNCHANGED <<schemaFiles, now, cacheFiles, cacheIndex, result, reduceVars, runs,
                 specText>>

NextParse == Parse

SpecParse == InitParse /\ [][NextParse]_vars

-----------------------------------------------------------------------------
(* Properties                                                              *)

Range(seq) == {seq[i] : i \in 1..Len(seq)}

\* the last request was a queryDependencies that found an analysis
Answered == result.op = "queryDependencies" /\ result.outcome.ok

Returned == Range(result.outcome.value)

\* the analysis the answered query has read
Queried == LookupAnalysis(cacheFiles, cacheIndex, result.options).value

CachedAnalyses == {cacheFiles[k] : k \in DOMAIN cacheFiles}

HasType(analysis, name) == MapHas(analysis.types, name)

SameButPath(d, e) ==
  /\ d.dependingType = e.dependingType
  /\ d.dependingField = e.dependingField
  /\ d.dependingSubgraph = e.dependingSubgraph
  /\ d.dependedType = e.dependedType
  /\ d.dependedField = e.dependedField
  /\ d.directive = e.directive

SameGroup(d, e) ==
  /\ d.dependingType = e.dependingType
  /\ d.dependingField = e.dependingField
  /\ d.dependingSubgraph = e.dependingSubgraph

IsStrictDotPrefix(p, q) ==
  Len(q) > Len(p) + 1 /\ SubSeq(q, 1, Len(p) + 1) = p \o "."

IsDotted(path) == \E i \in 1..Len(path) : CharAt(path, i) = "."

\* d is on the queried type and passes the field and same-type options
OnQueried(d) ==
  /\ d.dependedType = result.type
  /\ (result.options.field = "" \/ d.dependedField = result.options.field)
  /\ (result.options.includeSameType \/ d.dependingType # result.type)

\* C1: every Dependency returned by queryDependencies(T, options) has
\* dependedType = T, whatever the options
C1_QuerySoundness ==
  Answered => \A d \in Returned : d.dependedType = result.type

\* C2: the provides clause "listing { id parentListing {id}}" of
\* CartItem.saved is recorded as two Dependencies on the field id, with
\* fieldPaths listing.id and listing.parentListing.id and equal otherwise
C2_TwoPathsRecorded ==
  \A a \in CachedAnalyses :
    HasType(a, "CartItem") =>
      LET ids == {i \in 1..Len(a.dependencies) :
                    /\ a.dependencies[i].dependingType = "CartItem"
                    /\ a.dependencies[i].dependingField = "saved"
                    /\ a.dependencies[i].dependedField = "id"}
      IN /\ Cardinality(ids) = 2
         /\ {a.dependencies[i].fieldPath : i \in ids}
              = {"listing.id", "listing.parentListing.id"}
         /\ \A i, j \in ids : SameButPath(a.dependencies[i], a.dependencies[j])

C2_Witness ==
  \E a \in CachedAnalyses :
    \E i, j \in 1..Len(a.dependencies) :
      /\ a.dependencies[i].dependingField = "saved"
      /\ a.dependencies[i].dependedType = "Listing"
      /\ a.dependencies[i].fieldPath = "listing.id"
      /\ a.dependencies[j].dependedType = "Listing"
      /\ a.dependencies[j].fieldPath = "listing.parentListing.id"
      /\ SameButPath(a.dependencies[i], a.dependencies[j])

\* C3: two Dependencies on the queried type that differ only in fieldPath
\* are both returned by queryDependencies
C3_BothPathsReturned ==
  Answered =>
    \A d, e \in Range(Queried.dependencies) :
      (/\ SameButPath(d, e) /\ d.fieldPath # e.fieldPath
       /\ OnQueried(d) /\ OnQueried(e))
      => d \in Returned /\ e \in Returned

\* C4: within a group (dependingType, dependingField, dependingSubgraph) no
\* returned fieldPath is a strict dot-prefix of another returned fieldPath
C4_LeafOnly ==
  Answered =>
    \A d, e \in Returned :
      SameGroup(d, e) => ~ IsStrictDotPrefix(d.fieldPath, e.fieldPath)

\* C5: reducing the output of the reduction returns the same set
C5_Idempotent ==
  \A i \in 2..Len(reduceOuts) : Range(reduceOuts[i]) = Range(reduceOuts[i - 1])

C5_Witness ==
  /\ Len(reduceOuts) >= 2
  /\ Len(reduceOuts[1]) >= 2
  /\ Len(reduceOuts[1]) < Len(reduceIn)

\* C6 as stated: with direct, every returned fieldPath is a single segment
C6_DirectSingleSegment ==
  (Answered /\ result.options.direct) =>
    \A d \in Returned : ~ IsDotted(d.fieldPath)

\* C6 as amended: with direct, every returned Dependency has dependedType =
\* T; the number of segments of its fieldPath is not tested
C6_DirectOnQueriedType ==
  (Answered /\ result.options.direct) =>
    \A d \in Returned : d.dependedType = result.type

C6_Witness ==
  /\ Answered /\ result.options.direct
  /\ \E d \in Returned : IsDotted(d.fieldPath) /\ d.dependedType = result.type

\* C7: with direct, queryDependencies(T) returns the field_type Dependency
\* of every field of another type declared with type T, returns
\* CartItem.listing's product.id for Product, and returns nothing of a field
\* none of whose Dependencies is on T
C7_DirectDependencies ==
  (Answered /\ result.options.direct) =>
    /\ \A d \in Range(Queried.dependencies) :
         (/\ d.directive = "field_type" /\ d.dependedType = result.type
          /\ d.dependingType # result.type
          /\ result.options.field \in {"", d.dependedField})
         => d \in Returned
    /\ (HasType(Queried, "CartItem") /\ result.type = "Product") =>
         \E d \in Returned :
           /\ d.dependingType = "CartItem" /\ d.dependingField = "listing"
           /\ d.dependedType = "Product" /\ d.dependedField = "id"
           /\ d.fieldPath = "product.id"
           /\ d.directive =
                IF /\ HasType(Queried, "Product")
                   /\ Includes(MapGet(Queried.types, "Product").keyFields, "id")
                THEN "key" ELSE "requires"
    /\ \A d \in Returned :
         \E e \in Range(Queried.dependencies) :
           /\ e.dependingType = d.dependingType
           /\ e.dependingField = d.dependingField
           /\ e.dependedType = result.type

C7_Witness ==
  /\ Answered /\ result.options.direct /\ result.type = "Product"
  /\ HasType(Queried, "Item")
  /\ \E d \in Returned : d.directive = "field_type" /\ d.dependingField = "product"
  /\ \E d \in Returned : d.directive = "requires" /\ d.fieldPath = "product.id"

\* C8: without includeSameType no returned Dependency has dependingType =
\* T; with it, every Dependency on T of T's own fields that passes the field
\* and direct options is returned, itself or as the Dependency the
\* reduction keeps for its key
C8_SameType ==
  Answered =>
    /\ ~ result.options.includeSameType =>
         \A d \in Returned : d.dependingType # result.type
    /\ result.options.includeSameType =>
         \A d \in Range(Queried.dependencies) :
           (d.dependingType = result.type /\ OnQueried(d)) =>
             \E e \in Returned :
               SameButPath(d, e) /\ Len(e.fieldPath) >= Len(d.fieldPath)

C8_Witness ==
  /\ Answered /\ result.options.includeSameType
  /\ \E d \in Returned : d.dependingType = result.type /\ d.directive = "requires"

UnknownType ==
  /\ result.op \in {"queryDependencies", "queryTypeDetails"}
  /\ LookupAnalysis(cacheFiles, cacheIndex, result.options).ok
  /\ ~ HasType(Queried, result.type)

\* C9 as stated: a query naming a type absent from the registry fails
C9_UnknownTypeFails == UnknownType => ~ result.outcome.ok

\* C9 as amended: for a type absent from the registry queryTypeDetails
\* fails, and queryDependencies does not: it returns the Dependencies whose
\* dependedType is that name, possibly none
C9_UnknownTypeDetailsFail ==
  UnknownType =>
    IF result.op = "queryTypeDetails"
    THEN /\ ~ result.outcome.ok
         /\ result.outcome.error = "Type \"" \o result.type \o "\" not found in schema"
    ELSE /\ result.outcome.ok
         /\ \A d \in Returned : d.dependedType = result.type

C9_Witness ==
  /\ UnknownType /\ result.op = "queryTypeDetails" /\ ~ result.outcome.ok
  /\ Len(Queried.types) > 0

\* the kinds of the clauses of d's depending field whose selection holds
\* d.fieldPath
ClauseKinds(analysis, d) ==
  IF ~ HasType(analysis, d.dependingType) THEN {}
  ELSE LET fields == MapGet(analysis.types, d.dependingType).fields IN
    IF ~ MapHas(fields, d.dependingField) THEN {}
    ELSE LET directives == MapGet(fields, d.dependingField).directives
             Holds(spec) == \E e \in Range(parseFieldSpec(spec)) :
                              e.path = d.fieldPath /\ e.field = d.dependedField
         IN {k \in {"requires", "provides"} :
               \E i \in 1..Len(directives) :
                 \/ /\ directives[i].name = k
                    /\ ArgGiven(directives[i], "fields")
                    /\ Holds(FindArg(directives[i], "fields").value)
                 \/ /\ directives[i].name = "join__field"
                    /\ ArgGiven(directives[i], k)
                    /\ Holds(FindArg(directives[i], k).value)}

IsKeyOf(analysis, typeName, fieldName) ==
  /\ HasType(analysis, typeName)
  /\ Includes(MapGet(analysis.types, typeName).keyFields, fieldName)

FromClause(d) ==
  d.directive \in {"requires", "provides", "key"} /\ d.dependingField # "_entity"

\* C10: a Dependency recorded from a requires or provides selection has
\* directive "key" exactly when dependedField is a key field of
\* dependedType, and the kind of its clause otherwise
C10_KeyReclassification ==
  \A a \in CachedAnalyses :
    \A d \in Range(a.dependencies) :
      FromClause(d) =>
        /\ d.directive = "key" <=> IsKeyOf(a, d.dependedType, d.dependedField)
        /\ d.directive # "key" => d.directive \in ClauseKinds(a, d)

C10_Witness ==
  \E a \in CachedAnalyses :
    /\ \E d \in Range(a.dependencies) :
         /\ FromClause(d) /\ d.directive = "key"
         /\ d.dependingType = "CartItem" /\ d.fieldPath = "product.id"
    /\ \E d \in Range(a.dependencies) :
         /\ d.directive = "requires" /\ d.dependedType = "Product"
         /\ d.dependedField = "sku"

-----------------------------------------------------------------------------
(* Properties of the analyses of the test schemas                          *)

\* the definitions of the document an analysis was made from
DocumentOf(a) == schemaFiles[a.metadata.schemaFile].definitions

DeclaresField(def, f) == \E i \in 1..Len(def.fields) : def.fields[i].name = f

\* the names of the object types of a document declared to implement
\* interface and declaring field f, in document order
ImplementorsInDocument(definitions, interface, f) ==
  LET Implements(def) == /\ def.kind = "ObjectTypeDefinition"
                         /\ Includes(def.interfaces, interface)
                         /\ DeclaresField(def, f)
      found == SelectSeq(definitions, Implements)
  IN [i \in 1..Len(found) |-> found[i].name]

\* the Dependencies of one field with one fieldPath, in recording order
RECURSIVE DependenciesAt(_, _, _, _, _)
DependenciesAt(dependencies, i, dgType, dgField, path) ==
  IF i > Len(dependencies) THEN <<>>
  ELSE (IF /\ dependencies[i].dependingType = dgType
           /\ dependencies[i].dependingField = dgField
           /\ dependencies[i].fieldPath = path
           /\ dependencies[i].directive # "field_type"
        THEN <<dependencies[i]>> ELSE <<>>)
       \o DependenciesAt(dependencies, i + 1, dgType, dgField, path)

DependedTypesAt(a, dgType, dgField, path) ==
  LET found == DependenciesAt(a.dependencies, 1, dgType, dgField, path)
  IN [i \in 1..Len(found) |-> found[i].dependedType]

\* the requires clause "listing { listingId items }" of
\* RealtimeSellingListingDetails.adsSecondaryDisplayMessages is walked
\* through listing: ListingV2, an interface of the registry
ThroughListingV2(a) ==
  /\ HasType(a, "RealtimeSellingListingDetails")
  /\ HasType(a, "ListingV2")
  /\ MapGet(a.types, "ListingV2").isInterface

AdsDependedTypes(a, f) ==
  DependedTypesAt(a, "RealtimeSellingListingDetails", "adsSecondaryDisplayMessages",
                  "listing." \o f)

InterfaceDeclares(a, f) == MapHas(MapGet(a.types, "ListingV2").fields, f)

Resolved(a, d) ==
  /\ HasType(a, d.dependedType)
  /\ MapHas(MapGet(a.types, d.dependedType).fields, d.dependedField)

\* the entries of the requires and provides selections of a registered field
ClauseEntries(field) ==
  UNION {
    (IF /\ field.directives[i].name \in {"requires", "provides"}
        /\ ArgGiven(field.directives[i], "fields")
     THEN Range(parseFieldSpec(FindArg(field.directives[i], "fields").value))
     ELSE {})
    \cup
    UNION {IF /\ field.directives[i].name = "join__field"
              /\ ArgGiven(field.directives[i], k)
           THEN Range(parseFieldSpec(FindArg(field.directives[i], k).value))
           ELSE {} : k \in {"requires", "provides"}}
    : i \in 1..Len(field.directives)}

DotPrefixes(path) ==
  LET parts == SplitAt(path, {"."})
  IN {Join(SubSeq(parts, 1, k), ".") : k \in 1..(Len(parts) - 1)}

\* C13: for every Dependency with a dotted fieldPath, every strict prefix
\* of the path is the fieldPath of a Dependency with the same dependingType,
\* dependingField and dependingSubgraph
C13_PrefixClosure ==
  \A a \in CachedAnalyses :
    \A d \in Range(a.dependencies) :
      \A q \in DotPrefixes(d.fieldPath) :
        \E e \in Range(a.dependencies) : SameGroup(d, e) /\ e.fieldPath = q

C13_Witness ==
  \E a \in CachedAnalyses :
    \E d, e, g \in Range(a.dependencies) :
      /\ d.fieldPath = "listing.parentListing.id"
      /\ e.fieldPath = "listing.parentListing" /\ SameGroup(d, e)
      /\ g.fieldPath = "listing" /\ SameGroup(d, g)

\* a is the analysis of a document made of exactly the given definitions
AnalysisOf(a, definitions) ==
  /\ Len(DocumentOf(a)) = Cardinality(definitions)
  /\ Range(DocumentOf(a)) = definitions

\* C14: the analysis of Product{id, dimensions @external, volume
\* @requires(fields: "dimensions { length width height }")} with
\* Dimensions{length, width, height} holds exactly 4 Dependencies, with
\* fieldPaths dimensions, dimensions.length, dimensions.width and
\* dimensions.height, the nested ones on Dimensions
C14_FourDependencies ==
  \A a \in CachedAnalyses :
    AnalysisOf(a, {DefProductVolume, DefDimensions}) =>
      /\ a.metadata.totalDependencies = 4
      /\ Len(a.dependencies) = 4
      /\ {d.fieldPath : d \in Range(a.dependencies)}
           = {"dimensions", "dimensions.length", "dimensions.width",
              "dimensions.height"}
      /\ \A d \in Range(a.dependencies) :
           IsDotted(d.fieldPath) => d.dependedType = "Dimensions"

\* the Dependencies of Warehouse.inventory with directive provides
InventoryProvides(a) ==
  {i \in 1..Len(a.dependencies) :
     /\ a.dependencies[i].dependingType = "Warehouse"
     /\ a.dependencies[i].dependingField = "inventory"
     /\ a.dependencies[i].directive = "provides"}

\* C15: a single-segment path of a requires clause of a field of type T is
\* attributed to T, and one of a provides clause to the named return type of
\* the field; @provides(fields: "name price") on Warehouse.inventory:
\* [Product!]! gives exactly 2 Dependencies of Warehouse on Product with
\* directive provides
C15_StartType ==
  \A a \in CachedAnalyses :
    /\ \A d \in Range(a.dependencies) :
         (FromClause(d) /\ ~ IsDotted(d.fieldPath)) =>
           /\ ClauseKinds(a, d) = {"requires"} => d.dependedType = d.dependingType
           /\ ClauseKinds(a, d) = {"provides"} =>
                d.dependedType
                  = MapGet(MapGet(a.types, d.dependingType).fields, d.dependingField).type
    /\ (HasType(a, "Warehouse")
        /\ MapHas(MapGet(a.types, "Warehouse").fields, "inventory")) =>
         /\ Cardinality(InventoryProvides(a)) = 2
         /\ \A i \in InventoryProvides(a) : a.dependencies[i].dependedType = "Product"
         /\ {a.dependencies[i].dependedField : i \in InventoryProvides(a)}
              = {"name", "price"}

C15_Witness ==
  \E a \in CachedAnalyses :
    /\ Cardinality(InventoryProvides(a)) = 2
    /\ HasType(a, "Product")
    /\ \E d \in Range(a.dependencies) :
         /\ d.directive = "requires" /\ d.dependingType = "Product"
         /\ d.dependingField = "inventoryValue" /\ d.dependedType = "Product"
         /\ d.fieldPath = "price"

\* the document gives typeName by extension fragments only
OnlyExtended(definitions, typeName) ==
  /\ \E i \in 1..Len(definitions) :
       /\ definitions[i].name = typeName
       /\ definitions[i].kind \in {"ObjectTypeExtension", "InterfaceTypeExtension"}
  /\ \A i \in 1..Len(definitions) :
       definitions[i].name = typeName =>
         definitions[i].kind \in {"ObjectTypeExtension", "InterfaceTypeExtension"}

Occurrences(seq, x) == Cardinality({i \in 1..Len(seq) : seq[i] = x})

EntityDependencies(a, typeName, keyField) ==
  {i \in 1..Len(a.dependencies) :
     a.dependencies[i] = Dependency(typeName, "_entity", a.dependencies[i].dependingSubgraph,
                                    typeName, keyField, "key", keyField)}

ExternalDependencies(a, typeName, keyField) ==
  {i \in 1..Len(a.dependencies) :
     a.dependencies[i] = Dependency(typeName, keyField, a.dependencies[i].dependingSubgraph,
                                    typeName, keyField, "external", keyField)}

\* C16: a type given by extension fragments only has one "_entity"
\* Dependency with directive key per entry of its keyFields, an entry
\* repeated by several @key counting each time; a type with a definition has
\* none; and every entry of keyFields naming a field of the type marked
\* @external has one Dependency with directive external, no other field any
C16_EntityKeys ==
  \A a \in CachedAnalyses :
    \A t \in Range(a.types) :
      LET typeName == t[1]
          type     == t[2]
          names    == Range(type.keyFields) \cup Range(MapKeys(type.fields))
      IN /\ \A k \in names :
              /\ Cardinality(EntityDependencies(a, typeName, k))
                   = IF OnlyExtended(DocumentOf(a), typeName)
                     THEN Occurrences(type.keyFields, k) ELSE 0
              /\ Cardinality(ExternalDependencies(a, typeName, k))
                   = IF MapHas(type.fields, k) /\ isExternal(MapGet(type.fields, k))
                     THEN Occurrences(type.keyFields, k) ELSE 0
         /\ Cardinality({i \in 1..Len(a.dependencies) :
                           /\ a.dependencies[i].dependingType = typeName
                           /\ a.dependencies[i].dependingField = "_entity"})
              = IF OnlyExtended(DocumentOf(a), typeName) THEN Len(type.keyFields) ELSE 0

C16_Witness ==
  \E a \in CachedAnalyses :
    /\ HasType(a, "Product")
    /\ OnlyExtended(DocumentOf(a), "Product")
    /\ Occurrences(MapGet(a.types, "Product").keyFields, "id") = 2
    /\ Cardinality(EntityDependencies(a, "Product", "id")) = 2
    /\ Cardinality(EntityDependencies(a, "Product", "sku")) = 1
    /\ Cardinality(ExternalDependencies(a, "Product", "sku")) = 1

\* the registry entry of def.name holds what the fragment def contributes
HoldsFragment(a, def) ==
  /\ HasType(a, def.name)
  /\ LET type == MapGet(a.types, def.name) IN
     /\ \A i \in 1..Len(def.fields) : MapHas(type.fields, def.fields[i].name)
     /\ \A k \in Range(extractKeyFields(def.directives)) : Includes(type.keyFields, k)
     /\ \A i \in 1..Len(def.directives) : Includes(type.directives, def.directives[i])
     /\ \A i \in 1..Len(def.interfaces) : Includes(type.interfaces, def.interfaces[i])

\* C17: the registry entry of a name holds the fields, key fields,
\* directives and interfaces of every fragment of the document with that
\* name, whichever of them is visited first
C17_MergeOrderIndependent ==
  \A a \in CachedAnalyses :
    \A def \in Range(DocumentOf(a)) : HoldsFragment(a, def)

-----------------------------------------------------------------------------
(* Properties of the cache                                                 *)

\* C18: an analyze request for a schema that has a cached analysis, made
\* without force, leaves the cache files and the index as they are and
\* reports the cached metadata; made with force, or for a schema without a
\* cached analysis, it stores the analysis made now under the schema's key
\* and sets the schema's index record, leaving the other cache files alone
C18_ForceFlag ==
  [][(result = Idle /\ result'.op = "analyze" /\ result'.outcome.ok) =>
       LET absolutePath == resolve(result'.schemaFile)
           key          == getCacheKey(absolutePath)
       IN IF hasCache(cacheFiles, absolutePath) /\ ~ result'.force
          THEN /\ cacheFiles' = cacheFiles
               /\ cacheIndex' = cacheIndex
               /\ ~ result'.analysed
               /\ result'.outcome.value = cacheFiles[key].metadata
          ELSE /\ result'.analysed
               /\ DOMAIN cacheFiles' = DOMAIN cacheFiles \cup {key}
               /\ cacheFiles'[key]
                    = analyzeSchema(schemaFiles[absolutePath], absolutePath, now)
               /\ \A k \in DOMAIN cacheFiles \ {key} : cacheFiles'[k] = cacheFiles[k]
               /\ cacheIndex'.exists
               /\ MapGet(cacheIndex'.entries, absolutePath).analyzedAt = now
               /\ \A q \in Range(MapKeys(cacheIndex.entries)) \ {absolutePath} :
                    /\ MapHas(cacheIndex'.entries, q)
                    /\ MapGet(cacheIndex'.entries, q) = MapGet(cacheIndex.entries, q)
     ]_vars

C18_Witness ==
  /\ result.op = "analyze" /\ result.outcome.ok
  /\ result.cacheExists /\ result.force /\ result.analysed
  /\ now > 0
  /\ cacheFiles[getCacheKey(resolve(result.schemaFile))].metadata.analyzedAt = now
  /\ \E k \in DOMAIN cacheFiles : cacheFiles[k].metadata.analyzedAt < now

\* the paths of the index entries with the greatest analyzedAt
MostRecentPaths ==
  {cacheIndex.entries[i][1] : i \in
     {j \in 1..Len(cacheIndex.entries) :
        \A k \in 1..Len(cacheIndex.entries) :
          cacheIndex.entries[k][2].analyzedAt <= cacheIndex.entries[j][2].analyzedAt}}

\* C19: a query without a schema argument answers from the cached analysis
\* of an index entry with the greatest analyzedAt, and fails with a "No
\* analyzed schemas found" error when no analysis is stored
C19_MostRecent ==
  (result.op = "queryDependencies" /\ result.options.schema = "") =>
    IF DOMAIN cacheFiles = {}
    THEN /\ ~ result.outcome.ok
         /\ SubSeq(result.outcome.error, 1, 25) = "No analyzed schemas found"
    ELSE /\ result.outcome.ok
         /\ \E q \in MostRecentPaths :
              result.outcome.value
                = filterLeafDependencies(
                    SelectDependencies(cacheFiles[getCacheKey(q)], 1, result.type,
                                       result.options))

C19_Witness ==
  /\ result.op = "queryDependencies" /\ result.options.schema = ""
  /\ result.outcome.ok /\ Len(result.outcome.value) > 0
  /\ Len(cacheIndex.entries) = 2
  /\ MostRecentPaths = {cacheIndex.entries[2][1]}
  /\ \E k \in DOMAIN cacheFiles :
       cacheFiles[k].metadata.analyzedAt < MostRecentEntry(cacheIndex)[2].analyzedAt

-----------------------------------------------------------------------------
(* Properties of concurrent runs                                           *)

AllDone == \A r \in RunIds : runs[r].pc = "done"

\* C20: when the runs on different schema files have all completed, each
\* run has returned the analysis it returns alone, each analysis is in the
\* cache under its schema's key, and each schema is recorded in the index
C20_NoInterference ==
  (runs # <<>> /\ AllDone) =>
    \A r \in RunIds :
      LET filePath == runs[r].filePath
          alone    == analyzeSchema(schemaFiles[filePath], filePath, now)
      IN /\ runs[r].analysis = alone
         /\ getCache(cacheFiles, filePath) = Ok(alone)
         /\ cacheIndex.exists
         /\ MapHas(cacheIndex.entries, filePath)

-----------------------------------------------------------------------------
(* Properties of the walker and the registry on interfaces                 *)

\* the object types of the document that implement ListingV2 and define
\* price, with the named type of their price
PricedImplementors(a) ==
  {def \in Range(DocumentOf(a)) :
     /\ def.kind = "ObjectTypeDefinition"
     /\ Includes(def.interfaces, "ListingV2")
     /\ DeclaresField(def, "price")}

PriceTypeOf(def) ==
  LET i == CHOOSE j \in 1..Len(def.fields) : def.fields[j].name = "price"
  IN extractFieldType(def.fields[i].type)

\* C21: the requires clause "listing { price { amount } }" of
\* ListingSummary.total crosses the interface ListingV2 at price, which the
\* interface does not define; the final segment amount is recorded once for
\* every implementation that defines price, on the type of that
\* implementation's price
C21_IntermediateFanOut ==
  \A a \in CachedAnalyses :
    (/\ HasType(a, "ListingSummary") /\ HasType(a, "ListingV2")
     /\ HasType(a, "AuctionPrice") /\ HasType(a, "FixedPrice"))
    => \A def \in PricedImplementors(a) :
         PriceTypeOf(def)
           \in Range(DependedTypesAt(a, "ListingSummary", "total",
                                     "listing.price.amount"))

\* the type reached from current by the declared types of parts[i], ...,
\* up to the field before the last, as a sequence of one element; empty when
\* a type on the way is not in the registry, is an interface, or does not
\* define the segment
RECURSIVE DeclaredWalk(_, _, _, _)
DeclaredWalk(a, parts, i, current) ==
  IF ~ HasType(a, current) THEN <<>>
  ELSE LET type == MapGet(a.types, current) IN
    IF type.isInterface \/ ~ MapHas(type.fields, parts[i]) THEN <<>>
    ELSE IF i = Len(parts) THEN <<current>>
    ELSE DeclaredWalk(a, parts, i + 1, MapGet(type.fields, parts[i]).type)

\* the start type of a clause of kind k on the depending field of d
StartTypeOf(a, d, k) ==
  IF k = "provides"
  THEN MapGet(MapGet(a.types, d.dependingType).fields, d.dependingField).type
  ELSE d.dependingType

\* C22: a Dependency of a requires or provides selection whose path resolves
\* without crossing an interface is on the type reached by the declared
\* types of the fields of its path from the start type, and that type
\* defines the field; items.listing.id of Cart.totalValue, with
\* CartItem.listing: ListingReference, is on ListingReference
C22_TypeAwareAttribution ==
  \A a \in CachedAnalyses :
    /\ \A d \in Range(a.dependencies) :
         LET parts == SplitAt(d.fieldPath, {"."})
             walks == {DeclaredWalk(a, parts, 1, StartTypeOf(a, d, k)) :
                         k \in ClauseKinds(a, d)}
         IN (FromClause(d) /\ walks # {} /\ <<>> \notin walks) =>
              /\ <<d.dependedType>> \in walks
              /\ Resolved(a, d)
    /\ (HasType(a, "Cart") /\ HasType(a, "CartItem") /\ HasType(a, "ListingReference")) =>
         /\ DependedTypesAt(a, "Cart", "totalValue", "items.listing.id")
              = <<"ListingReference">>
         /\ DependedTypesAt(a, "Cart", "totalValue", "items.listing.price")
              = <<"ListingReference">>
         /\ DependedTypesAt(a, "Cart", "totalValue", "items.listing") = <<"CartItem">>

C22_Witness ==
  \E a \in CachedAnalyses :
    \E d, e \in Range(a.dependencies) :
      /\ d.dependingType = "Cart" /\ d.dependingField = "totalValue"
      /\ d.fieldPath = "items.listing.id" /\ d.dependedType = "ListingReference"
      /\ d.directive = "key"
      /\ SameGroup(d, e) /\ e.fieldPath = "items.listing.price"
      /\ e.dependedType = "ListingReference" /\ e.directive = "requires"

-----------------------------------------------------------------------------
(* Properties of the selection-path parser                                 *)

IsName(token) == token \in {"a", "b"}

NamesAndBraces(tokens) == \A i \in 1..Len(tokens) : IsName(tokens[i]) \/ IsBrace(tokens[i])

Count(tokens, x, y, token) == Cardinality({k \in x..y : tokens[k] = token})

\* the position of the brace that closes the brace opened at o, one past
\* the end when it is left open
MatchClose(tokens, o) ==
  LET closing == {c \in (o + 1)..Len(tokens) :
                    Count(tokens, o, c, "{") = Count(tokens, o, c, "}")}
  IN IF closing = {} THEN Len(tokens) + 1
     ELSE CHOOSE c \in closing : \A e \in closing : c <= e

\* the fields whose brace block encloses position i
Enclosing(tokens, i) ==
  {j \in 1..(i - 2) :
     IsName(tokens[j]) /\ tokens[j + 1] = "{" /\ MatchClose(tokens, j + 1) > i}

Positions(tokens) == [k \in 1..Len(tokens) |-> k]

ExpectedPath(tokens, i) ==
  LET Encloses(j) == j \in Enclosing(tokens, i)
      outer == SelectSeq(Positions(tokens), Encloses)
  IN Join([k \in 1..Len(outer) |-> tokens[outer[k]]] \o <<tokens[i]>>, ".")

ExpectedEntries(tokens) ==
  LET NameAt(i) == IsName(tokens[i])
      names == SelectSeq(Positions(tokens), NameAt)
  IN [k \in 1..Len(names) |->
        [field |-> tokens[names[k]], path |-> ExpectedPath(tokens, names[k])]]

Balanced(tokens) ==
  /\ Count(tokens, 1, Len(tokens), "{") = Count(tokens, 1, Len(tokens), "}")
  /\ \A k \in 1..Len(tokens) : Count(tokens, 1, k, "}") <= Count(tokens, 1, k, "{")

\* every opening brace directly follows a field name
BlocksFollowFields(tokens) ==
  \A i \in 1..Len(tokens) : tokens[i] = "{" => (i > 1 /\ IsName(tokens[i - 1]))

IsSpread(token) == Len(token) >= 3 /\ SubSeq(token, 1, 3) = "..."

\* the spec holds a fragment spread, and nothing but spreads and braces
OnlySpreads(tokens) ==
  /\ \E i \in 1..Len(tokens) : IsSpread(tokens[i])
  /\ \A i \in 1..Len(tokens) : IsSpread(tokens[i]) \/ IsBrace(tokens[i])

\* C24: a field spec of fragment spreads only, with or without brace blocks,
\* has no entry, and no fragment spread is the field of an entry or a
\* segment of its path
C24_SpreadsDropped ==
  Len(parsed) = 1 =>
    /\ OnlySpreads(specText.tokens) => parsed[1].entries = <<>>
    /\ \A e \in Range(parsed[1].entries) :
         /\ ~ IsSpread(e.field)
         /\ \A part \in Range(SplitAt(e.path, {"."})) : ~ IsSpread(part)

-----------------------------------------------------------------------------
(* Properties of the key fields                                            *)

\* the paths the selection-path parser gives for the specs of the @key
\* directives, in directive order
RECURSIVE KeyPaths(_, _)
KeyPaths(directives, i) ==
  IF i > Len(directives) THEN <<>>
  ELSE (IF directives[i].name = "key" /\ ArgGiven(directives[i], "fields")
        THEN LET entries == parseFieldSpec(FindArg(directives[i], "fields").value)
             IN [k \in 1..Len(entries) |-> entries[k].path]
        ELSE <<>>) \o KeyPaths(directives, i + 1)

\* C25: the key fields of a type are the paths the selection-path parser
\* gives for its @key specs, "a" and "a.b" for "a { b }"; no brace is a key
\* field or the dependedField of a Dependency with directive key
C25_NestedKeys ==
  \A a \in CachedAnalyses :
    /\ \A t \in Range(a.types) :
         /\ t[2].keyFields = KeyPaths(t[2].directives, 1)
         /\ \A k \in Range(t[2].keyFields) : ~ IsBrace(k)
    /\ \A d \in Range(a.dependencies) :
         d.directive = "key" => ~ IsBrace(d.dependedField)

-----------------------------------------------------------------------------
(* Properties of the implementation lists                                  *)

NoRepeats(seq) == \A i, j \in 1..Len(seq) : seq[i] = seq[j] => i = j

\* C26: every type name is at most once in the implementation list of an
\* interface, in whatever order the definition and the extensions of the
\* type that declare the interface are visited, and the fan-out of the one
\* requires clause of adsSecondaryDisplayMessages records no Dependency
\* twice
C26_ImplementorsOnce ==
  \A a \in CachedAnalyses :
    /\ \A entry \in Range(a.implementations) : NoRepeats(entry[2])
    /\ \A f \in {"listingId", "items"} :
         NoRepeats(DependenciesAt(a.dependencies, 1, "RealtimeSellingListingDetails",
                                  "adsSecondaryDisplayMessages", "listing." \o f))

-----------------------------------------------------------------------------
(* Properties of the two directive forms                                   *)

\* the directives of a field with every @join__field written as @requires
\* and @provides
RECURSIVE AsFederation1(_, _)
AsFederation1(directives, i) ==
  IF i > Len(directives) THEN <<>>
  ELSE LET d == directives[i] IN
    (IF d.name = "join__field"
     THEN (IF ArgGiven(d, "requires")
           THEN <<Directive("requires", <<Arg("fields", FindArg(d, "requires").value)>>)>>
           ELSE <<>>)
          \o (IF ArgGiven(d, "provides")
              THEN <<Directive("provides", <<Arg("fields", FindArg(d, "provides").value)>>)>>
              ELSE <<>>)
     ELSE <<d>>) \o AsFederation1(directives, i + 1)

\* the directives of a field with every @requires and @provides written as
\* @join__field, with the graph argument graph or, for "", without it
AsFederation2(directives, graph) ==
  [i \in 1..Len(directives) |->
     IF directives[i].name \in {"requires", "provides"} /\ ArgGiven(directives[i], "fields")
     THEN Directive("join__field",
            (IF graph = "" THEN <<>> ELSE <<Arg("graph", graph)>>)
            \o <<Arg(directives[i].name, FindArg(directives[i], "fields").value)>>)
     ELSE directives[i]]

RewriteFields(definitions, Rewrite(_)) ==
  [i \in 1..Len(definitions) |->
     [definitions[i] EXCEPT !.fields =
        [j \in 1..Len(@) |-> [@[j] EXCEPT !.directives = Rewrite(@)]]]]

Federation1(schema) ==
  LET Rewrite(directives) == AsFederation1(directives, 1)
  IN [schema EXCEPT !.definitions = RewriteFields(@, Rewrite)]

Federation2(schema, graph) ==
  LET Rewrite(directives) == AsFederation2(directives, graph)
  IN [schema EXCEPT !.definitions = RewriteFields(@, Rewrite)]

\* the Dependencies of the clauses with their dependingSubgraph set to graph
InSubgraph(dependencies, graph) ==
  [i \in 1..Len(dependencies) |->
     IF FromClause(dependencies[i])
     THEN [dependencies[i] EXCEPT !.dependingSubgraph = graph]
     ELSE dependencies[i]]

Graphs == {"", "FOLLOW"}

\* C27: the analysis of a schema whose clauses are all written as
\* @join__field(graph: G, requires: s) and @join__field(graph: G,
\* provides: s) has the Dependencies of the schema with the same clauses
\* written as @requires(fields: s) and @provides(fields: s), but for
\* dependingSubgraph, which is G; without the graph argument the
\* Dependencies are the same
C27_DirectiveFormsAgree ==
  \A a \in CachedAnalyses :
    LET path   == a.metadata.schemaFile
        first  == Federation1(schemaFiles[path])
        v1     == analyzeSchema(first, path, now).dependencies
    IN \A graph \in Graphs :
         analyzeSchema(Federation2(first, graph), path, now).dependencies
           = IF graph = "" THEN v1 ELSE InSubgraph(v1, graph)

C27_Witness ==
  \E a \in CachedAnalyses :
    LET path == a.metadata.schemaFile
        v1   == analyzeSchema(Federation1(schemaFiles[path]), path, now).dependencies
    IN \E d \in Range(a.dependencies) :
         /\ d.dependingType = "RealtimeSellingListingDetails"
         /\ d.dependingField = "adsSecondaryDisplayMessages"
         /\ d.directive = "requires" /\ d.dependingSubgraph = "ADSCONTENTHUB"
         /\ d.fieldPath = "listing.items" /\ d.dependedType = "SingleSkuListing"
         /\ [d EXCEPT !.dependingSubgraph = "test"] \in Range(v1)
         /\ d \notin Range(v1)

-----------------------------------------------------------------------------
(* Properties of the structural edges                                      *)

FieldTypeEdges(a, typeName, fieldName) ==
  {i \in 1..Len(a.dependencies) :
     /\ a.dependencies[i].directive = "field_type"
     /\ a.dependencies[i].dependingType = typeName
     /\ a.dependencies[i].dependingField = fieldName}

-----------------------------------------------------------------------------
(* Properties of the reduction                                             *)

\* C29: filterLeafDependencies returns the same set of Dependencies for a
\* list and for every permutation of the list
C29_OrderIndependent ==
  Len(reduceOuts) >= 1 =>
    \A p \in Permutations(1..Len(reduceIn)) :
      Range(filterLeafDependencies([i \in 1..Len(reduceIn) |-> reduceIn[p[i]]]))
        = Range(reduceOuts[1])

-----------------------------------------------------------------------------
(* Properties of the cache under runs and clear requests                   *)

\* C30: whatever the interleaving of the steps of saveCache and of
\* clearCache, every schema of the index has its cache file, and
\* getMostRecentCache finds the analysis of the schema it selects whenever
\* the index has an entry
C30_IndexedHaveFiles ==
  /\ \A entry \in Range(cacheIndex.entries) : hasCache(cacheFiles, entry[1])
  /\ (cacheIndex.exists /\ Len(cacheIndex.entries) > 0) =>
       getMostRecentCache(cacheFiles, cacheIndex).ok

====
